---- MODULE Spec2Model ----
(***************************************************************************)
(* State-machine model of tomviz::DataSource (src/tomviz/DataSource.cxx).  *)
(*                                                                         *)
(* vtkImageData objects live in a heap (img) and are referred to by id,    *)
(* because the code passes them by pointer: a producer's output, a time    *)
(* series step and a clone may all point at the same object.               *)
(* Every DataSource method is an operator from a "world" (heap, sources,   *)
(* emitted signals, crash flag) to the world after the call; the actions   *)
(* apply these operators.                                                  *)
(***************************************************************************)
EXTENDS Integers, Sequences, FiniteSets, TLC

VARIABLES img,      \* heap of vtkImageData objects: id -> image record
          ds,       \* DataSource objects: id -> source record
          out,      \* signals and external calls issued by the last operation
          crashed,  \* the process was terminated by undefined behaviour
          last      \* the last operation: name, receiver, arguments, result

vars == <<img, ds, out, crashed, last>>

----------------------------------------------------------------------------
(* Bounds of the model *)

MaxZ == 2          \* largest number of z layers a volume grows to
MaxSteps == 2      \* largest number of time series steps
MaxImages == 5     \* size of the vtkImageData heap

(* DataSource::DataSourceType, stored as int8 in tomviz_data_source_type *)
Volume == 0
TiltSeries == 1
FIB == 2
NoTag == -1        \* the field array is absent

Types == {Volume, TiltSeries, FIB}

ImageIds == 1..MaxImages
SourceIds == {1, 2}
NullImage == 0

(* array names, in the order QMap and QJsonObject iterate their keys *)
NameOrder == <<"a", "b", "c">>
Names == {NameOrder[i] : i \in 1..Len(NameOrder)}

(* values an uninitialised or reallocated buffer may hold *)
Garbage == {0, 7}

----------------------------------------------------------------------------
(* Sequence helpers *)


Range(s) == {s[i] : i \in 1..Len(s)}

IndexOf(s, x) == IF x \in Range(s) THEN CHOOSE i \in 1..Len(s) : s[i] = x ELSE 0

Fill(n, v) == [i \in 1..n |-> v]

----------------------------------------------------------------------------
(* vtkImageData *)

(* An image: extent, point-data arrays (name + flat voxel buffer, one       *)
(* component), index of the active scalars (0: none), and the field data    *)
(* tomviz keeps on it: the type tag and the tilt angles.  live: the object  *)
(* exists; held: the application keeps a reference of its own to it.        *)
MkImage(ext, arrays, act, tag, hasTilt, tilt) ==
  [live |-> TRUE, held |-> FALSE, ext |-> ext, arrays |-> arrays, act |-> act,
   tag |-> tag, hasTilt |-> hasTilt, tilt |-> tilt, spacing |-> 1]

FreeImage ==
  [live |-> FALSE, held |-> FALSE, ext |-> <<0, 0, 0, 0, 0, 0>>,
   arrays |-> <<>>, act |-> 0,
   tag |-> NoTag, hasTilt |-> FALSE, tilt |-> <<>>, spacing |-> 1]

NumX(im) == im.ext[2] - im.ext[1] + 1
NumY(im) == im.ext[4] - im.ext[3] + 1
NumZ(im) == im.ext[6] - im.ext[5] + 1
LayerSize(im) == NumX(im) * NumY(im)
NumVoxels(im) == LayerSize(im) * NumZ(im)

ArrayNames(im) == [k \in 1..Len(im.arrays) |-> im.arrays[k].name]

(* vtkPointData::GetScalars()->GetName() *)
ActiveName(im) == IF im.act = 0 THEN "" ELSE im.arrays[im.act].name

(* vtkDataArray::SetNumberOfTuples on a field array: when the array grows    *)
(* the storage is reallocated without a copy, so the old entries are kept   *)
(* or lost and the new ones hold whatever the allocator returns.            *)
SetNumberOfTuples(old, n, u) ==
  IF n <= Len(old) THEN SubSeq(old, 1, n)
  ELSE [k \in 1..n |-> IF u.keep /\ k <= Len(old) THEN old[k] ELSE u.fill]

\* a plausible slip: a new array gets extent[5] - extent[4] entries
createOrResizeTiltAnglesArrayShort(im, u) ==
  LET numTiltAngles == im.ext[6] - im.ext[5] + 1
  IN IF ~im.hasTilt
       THEN [im EXCEPT !.hasTilt = TRUE, !.tilt = Fill(numTiltAngles - 1, 0)]
       ELSE IF numTiltAngles # Len(im.tilt)
              THEN [im EXCEPT !.tilt = SetNumberOfTuples(im.tilt, numTiltAngles, u)]
              ELSE im

createOrResizeTiltAnglesArray(im, u) ==
  LET numTiltAngles == im.ext[6] - im.ext[5] + 1
  IN IF ~im.hasTilt
       THEN [im EXCEPT !.hasTilt = TRUE, !.tilt = Fill(numTiltAngles, 0)]
       ELSE IF numTiltAngles # Len(im.tilt)
              THEN [im EXCEPT !.tilt = SetNumberOfTuples(im.tilt, numTiltAngles, u)]
              ELSE im

clearTiltAngles(im) == [im EXCEPT !.hasTilt = FALSE, !.tilt = <<>>]

\* static DataSource::setType(image, t)
setTypeOf(im, t) ==
  LET tagged == [im EXCEPT !.tag = t]
  IN IF t # TiltSeries THEN clearTiltAngles(tagged) ELSE tagged

\* static DataSource::setTiltAngles(image, angles)
setTiltAnglesOf(im, angles, u) ==
  LET r == createOrResizeTiltAnglesArray(im, u)
  IN [r EXCEPT !.tilt = [k \in 1..Len(r.tilt) |->
                           IF k <= Len(angles) THEN angles[k] ELSE r.tilt[k]]]

\* static DataSource::getTiltAngles(image)
getTiltAnglesOf(im) == IF im.hasTilt THEN im.tilt ELSE <<>>

----------------------------------------------------------------------------
(* QMap<QString, QString> CurrentToOriginal, as a set of <<key, value>> *)

MapKeys(m) == {p[1] : p \in m}
MapHas(m, k) == k \in MapKeys(m)
\* QMap::operator[] on a missing key yields a default-constructed QString
MapGet(m, k) == IF MapHas(m, k) THEN (CHOOSE p \in m : p[1] = k)[2] ELSE ""
MapRemove(m, k) == {p \in m : p[1] # k}
MapPut(m, k, v) == MapRemove(m, k) \cup {<<k, v>>}
IdentityMap(names) == {<<n, n>> : n \in names}

\* the keys of a map as a sequence, in iteration (sorted) order
RECURSIVE SortedKeys(_, _)
SortedKeys(keys, k) ==
  IF k > Len(NameOrder) THEN <<>>
  ELSE (IF NameOrder[k] \in keys THEN <<NameOrder[k]>> ELSE <<>>)
         \o SortedKeys(keys, k + 1)

----------------------------------------------------------------------------
(* The world a DataSource method runs in *)

World == [img |-> img, ds |-> ds, out |-> <<>>, crashed |-> FALSE, ret |-> TRUE]


LiveImages(w) == {i \in ImageIds : w.img[i].live}

ImageOf(w, d) == w.img[w.ds[d].image]

\* a plausible slip: the color map is rescaled during a time step change too
updateColorMapUnguarded(w, d) ==
  [w EXCEPT !.out = Append(@, <<d, "rescaleColorMap">>)]

\* DataSource::updateColorMap, the slot connected to dataChanged in init()
updateColorMap(w, d) ==
  IF w.ds[d].changingTimeStep THEN w
  ELSE [w EXCEPT !.out = Append(@, <<d, "rescaleColorMap">>)]

\* emit a signal of source d and run the slots DataSource connects to it
Emit(w, d, sig) ==
  LET w1 == [w EXCEPT !.out = Append(@, <<d, sig>>)]
  IN IF sig = "dataChanged" THEN updateColorMap(w1, d) ELSE w1

\* an external call made by the source (pipeline()->execute() ...)
Call(w, d, what) == [w EXCEPT !.out = Append(@, <<d, what>>)]

Crash(w) == [w EXCEPT !.crashed = TRUE]

\* images are reference counted: an image lives as long as the application,
\* a producer or a time series step refers to it
Referenced(w, i) ==
  \/ w.img[i].held
  \/ \E d \in SourceIds : w.ds[d].exists /\ (w.ds[d].image = i
                                            \/ i \in Range(w.ds[d].timeSeriesSteps))

Release(w, i) ==
  IF i \in ImageIds /\ ~Referenced(w, i)
    THEN [w EXCEPT !.img[i] = FreeImage] ELSE w

\* vtkTrivialProducer::SetOutput
SetOutput(w, d, image) ==
  Release([w EXCEPT !.ds[d].image = image], w.ds[d].image)

\* the id a newly created image gets
FreshImage(w) == CHOOSE i \in ImageIds :
                   ~w.img[i].live /\ \A j \in ImageIds : ~w.img[j].live => i <= j

NewImage(w, image) == [w EXCEPT !.img[FreshImage(w)] = image]

----------------------------------------------------------------------------
(* DataSource queries *)

listScalars(w, d) ==
  IF w.ds[d].image = NullImage THEN <<>> ELSE ArrayNames(ImageOf(w, d))

activeScalars(w, d) ==
  IF w.ds[d].image = NullImage THEN "" ELSE ActiveName(ImageOf(w, d))

\* a plausible slip: only the active scalars are looked at
getScalarsArrayActiveOnly(w, d, arrayName) ==
  IF w.ds[d].image = NullImage THEN 0
  ELSE IF arrayName = ActiveName(ImageOf(w, d)) THEN ImageOf(w, d).act ELSE 0

\* DataSource::getScalarsArray: index of the array, 0 for nullptr
getScalarsArray(w, d, arrayName) ==
  IF w.ds[d].image = NullImage THEN 0
  ELSE IndexOf(ArrayNames(ImageOf(w, d)), arrayName)

label(w, d) == IF w.ds[d].hasLabel THEN w.ds[d].label ELSE w.ds[d].fileBase

numTimeSeriesSteps(w, d) == Len(w.ds[d].timeSeriesSteps)

currentTimeSeriesIndex(w, d) == w.ds[d].currentTimeStep

----------------------------------------------------------------------------
(* DataSource: type, tilt angles, data *)

\* DataSource::setType(DataSourceType)
setType(w, d, t, u) ==
  LET i == w.ds[d].image
      w1 == [w EXCEPT !.ds[d].Type = t]
      w2 == IF i = NullImage THEN w1
            ELSE [w1 EXCEPT !.img[i] = setTypeOf(@, t)]
      w3 == IF t = TiltSeries
              THEN [w2 EXCEPT !.img[i] = createOrResizeTiltAnglesArray(@, u)]
              ELSE w2
  IN Emit(w3, d, "dataChanged")

\* a plausible slip: the type is not read back from the image's tag
dataModifiedNoSync(w, d, u) ==
  Emit(w, d, "dataChanged")

\* DataSource::dataModified
dataModified(w, d, u) ==
  LET i == w.ds[d].image
      w1 == IF w.img[i].tag # NoTag
              THEN setType(w, d, w.img[i].tag, u)
              ELSE [w EXCEPT !.img[i].tag = w.ds[d].Type]
  IN Emit(w1, d, "dataChanged")

\* DataSource::setTiltAngles(angles)
setTiltAngles(w, d, angles, u) ==
  LET i == w.ds[d].image
  IN Emit([w EXCEPT !.img[i] = setTiltAnglesOf(@, angles, u)], d, "dataChanged")

\* DataSource::setData
setData(w, d, newData, u) ==
  LET tag == w.img[newData].tag
      t == IF tag = TiltSeries THEN TiltSeries
           ELSE IF tag = FIB THEN FIB ELSE Volume
      w1 == SetOutput(w, d, newData)
      w2 == IF tag = TiltSeries
              THEN [w1 EXCEPT !.img[newData] = createOrResizeTiltAnglesArray(@, u)]
              ELSE w1
      w3 == [w2 EXCEPT !.ds[d].Type = t, !.img[newData].tag = t]
      w4 == [w3 EXCEPT !.ds[d].CurrentToOriginal =
                          IdentityMap(Range(listScalars(w3, d)))]
  IN dataModified(w4, d, u)

\* DataSource::copyData(newData): deep copy of the image newData into the
\* producer's output
copyData(w, d, newData, u) ==
  LET i == w.ds[d].image
      w1 == [w EXCEPT !.img[i] = [newData EXCEPT !.held = w.img[i].held]]
  IN Emit(dataModified(w1, d, u), d, "activeScalarsChanged")

----------------------------------------------------------------------------
(* DataSource::appendSlice *)

\* appendImageData<T>: buffer sizes are counted in elements of T.  The new
\* scalar array comes uninitialised from AllocateScalars; the old contents
\* are copied to its start and the whole slice array to the new top layer.
appendImageData(im, slice, u) ==
  LET old == im.arrays[im.act].vox
      bufferSize == Len(old)
      extents == [im.ext EXCEPT ![6] = @ + 1]
      grown == [im EXCEPT !.ext = extents]
      newSize == NumVoxels(grown)
      offset == (extents[6] - extents[5]) * LayerSize(grown)
      sliceSize == Len(slice.vox)
      vox == [k \in 1..newSize |->
                IF k > offset /\ k <= offset + sliceSize THEN slice.vox[k - offset]
                ELSE IF k <= bufferSize THEN old[k]
                ELSE u.fill]
  IN [im |-> [grown EXCEPT !.arrays[im.act].vox = vox],
      overrun |-> offset + sliceSize > newSize \/ bufferSize > newSize]

\* a plausible slip: only the x extent is compared
ExtentMismatchXOnly(extents, sliceExtents) ==
  \E k \in 1..2 : extents[k] # sliceExtents[k]

\* the loop over i < 4 in appendSlice: some x or y bound differs
ExtentMismatch(extents, sliceExtents) ==
  \E k \in 1..4 : extents[k] # sliceExtents[k]

appendSlice(w, d, slice, u) ==
  IF slice.null THEN [w EXCEPT !.ret = FALSE]
  ELSE IF w.ds[d].image = NullImage THEN [w EXCEPT !.ret = TRUE]
  ELSE
    LET i == w.ds[d].image
        extents == w.img[i].ext
    IN IF ExtentMismatch(extents, slice.ext)
         THEN [w EXCEPT !.ret = FALSE]
         ELSE IF w.img[i].act = 0 THEN Crash(w)   \* GetScalars() is null
         ELSE
           LET r == appendImageData(w.img[i], slice, u)
               w1 == [w EXCEPT !.img[i] = r.im]
           IN IF r.overrun /\ u.crash THEN Crash(w1)
              ELSE
                LET w2 == Call(w1, d, "sliceCopied")
                    w3 == Emit(w2, d, "dataChanged")
                    w4 == Emit(w3, d, "dataPropertiesChanged")
                    w5 == Call(w4, d, "pipeline.execute")
                IN [w5 EXCEPT !.ret = TRUE]

----------------------------------------------------------------------------
(* DataSource: time series *)

\* a plausible slip: the step's image is installed without dataModified()
switchTimeSeriesStepNoResync(w, d, i, u) ==
  IF i >= Len(w.ds[d].timeSeriesSteps) THEN w
  ELSE
    LET w1 == [w EXCEPT !.ds[d].changingTimeStep = TRUE,
                        !.ds[d].currentTimeStep = i]
    IN IF i < 0 /\ (u.crash \/ u.wild = NullImage) THEN Crash(w1)
       ELSE
         LET image == IF i < 0 THEN u.wild ELSE w.ds[d].timeSeriesSteps[i + 1]
             w2 == SetOutput(w1, d, image)
             w4 == [w2 EXCEPT !.ds[d].changingTimeStep = FALSE]
         IN Emit(w4, d, "timeStepChanged")

\* DataSource::switchTimeSeriesStep.  timeSeriesSteps[i] with i < 0 reads
\* outside the list: the process dies or some pointer u.wild is installed.
switchTimeSeriesStep(w, d, i, u) ==
  IF i >= Len(w.ds[d].timeSeriesSteps) THEN w
  ELSE
    LET w1 == [w EXCEPT !.ds[d].changingTimeStep = TRUE,
                        !.ds[d].currentTimeStep = i]
    IN IF i < 0 /\ (u.crash \/ u.wild = NullImage) THEN Crash(w1)
       ELSE
         LET image == IF i < 0 THEN u.wild ELSE w.ds[d].timeSeriesSteps[i + 1]
             w2 == SetOutput(w1, d, image)
             w3 == dataModified(w2, d, u)
             w4 == [w3 EXCEPT !.ds[d].changingTimeStep = FALSE]
         IN Emit(w4, d, "timeStepChanged")

\* DataSource::setTimeSeriesSteps
setTimeSeriesSteps(w, d, steps, u) ==
  LET w1 == Emit([w EXCEPT !.ds[d].timeSeriesSteps = steps], d, "timeStepsModified")
      current == currentTimeSeriesIndex(w1, d)
      stepImage == IF current < 0 THEN u.wild
                   ELSE IF current < Len(steps) THEN steps[current + 1]
                   ELSE NullImage
  IN IF current < Len(steps) /\ stepImage # w1.ds[d].image
       THEN switchTimeSeriesStep(w1, d, current, u)
       ELSE w1

\* DataSource::addTimeSeriesStep
addTimeSeriesStep(w, d, step) ==
  Emit([w EXCEPT !.ds[d].timeSeriesSteps = Append(@, step)], d, "timeStepsModified")

\* DataSource::addTimeSeriesSteps
addTimeSeriesSteps(w, d, steps) ==
  Emit([w EXCEPT !.ds[d].timeSeriesSteps = @ \o steps], d, "timeStepsModified")

\* DataSource::clearTimeSeriesSteps
clearTimeSeriesSteps(w, d) ==
  LET w1 == [w EXCEPT !.ds[d].timeSeriesSteps = <<>>,
                      !.ds[d].currentTimeStep = 0]
  IN Emit(Emit(w1, d, "timeStepsModified"), d, "timeStepChanged")

Abs(x) == IF x < 0 THEN -x ELSE x

\* std::round(num / den) for den > 0: halfway cases away from zero
Round(num, den) ==
  LET q == (2 * Abs(num) + den) \div (2 * den)
  IN IF num < 0 THEN -q ELSE q

\* the interpolation in onTimeChanged:
\* round((time - timeStart) * ((numTimeSteps - 1) / (timeStop - timeStart)))
InterpolatedStep(numTimeSteps, keeperSteps, time) ==
  LET timeSteps == IF Len(keeperSteps) = 0 THEN <<0, 1>> ELSE keeperSteps
      timeStart == timeSteps[1]
      timeStop == timeSteps[Len(timeSteps)]
  IN Round((time - timeStart) * (numTimeSteps - 1), timeStop - timeStart)

\* DataSource::onTimeChanged: keeperSteps and time come from the time keeper
onTimeChanged(w, d, keeperSteps, time, u) ==
  LET numTimeSteps == numTimeSeriesSteps(w, d)
  IN IF numTimeSteps <= 1 \/ Len(keeperSteps) = 1 THEN w
     ELSE switchTimeSeriesStep(
            w, d, InterpolatedStep(numTimeSteps, keeperSteps, time), u)

----------------------------------------------------------------------------
(* DataSource: scalar arrays *)

\* DataSource::setActiveScalars(const QString&)
setActiveScalars(w, d, arrayName, u) ==
  IF getScalarsArray(w, d, arrayName) = 0 THEN w
  ELSE
    LET i == w.ds[d].image
        w1 == [w EXCEPT !.img[i].act = getScalarsArray(w, d, arrayName)]
        w2 == dataModified(w1, d, u)
    IN Emit(Emit(w2, d, "activeScalarsChanged"), d, "dataPropertiesChanged")

\* a plausible slip: the index is taken as one-based
setActiveScalarsIdxOneBased(w, d, arrayIdx, u) ==
  LET scalars == listScalars(w, d)
  IN IF arrayIdx < 1 \/ arrayIdx >= Len(scalars) THEN w
     ELSE setActiveScalars(w, d, scalars[arrayIdx + 1], u)

\* DataSource::setActiveScalars(int)
setActiveScalarsIdx(w, d, arrayIdx, u) ==
  LET scalars == listScalars(w, d)
  IN IF arrayIdx < 0 \/ arrayIdx >= Len(scalars) THEN w
     ELSE setActiveScalars(w, d, scalars[arrayIdx + 1], u)

\* DataSource::renameScalarsArray
renameScalarsArray(w, d, oldName, newName, u) ==
  IF oldName = newName THEN w
  ELSE
    LET isCurrentScalars == oldName = activeScalars(w, d)
        dataArray == getScalarsArray(w, d, oldName)
        targetArray == getScalarsArray(w, d, newName)
    IN IF dataArray = 0 THEN w
       ELSE IF targetArray # 0 THEN w
       ELSE
         LET i == w.ds[d].image
             w1 == [w EXCEPT !.img[i].arrays[dataArray].name = newName]
             w2 == IF isCurrentScalars
                     THEN setActiveScalars(w1, d, newName, u)
                     ELSE Emit(Emit(dataModified(w1, d, u),
                                    d, "activeScalarsChanged"),
                               d, "dataPropertiesChanged")
             originalName == MapGet(w2.ds[d].CurrentToOriginal, oldName)
         IN Call([w2 EXCEPT !.ds[d].CurrentToOriginal =
                              MapPut(MapRemove(@, oldName), newName, originalName)],
                 d, "renameTracked")

\* DataSource::setLabel
setLabel(w, d, text) == [w EXCEPT !.ds[d].hasLabel = TRUE, !.ds[d].label = text]

\* Internals->Units is a null pointer
NoUnits == ""

\* DataSource::setSpacing: the spacing is the same along the three axes
setSpacing(w, d, spacing, markModified) ==
  LET i == w.ds[d].image
      w1 == IF markModified THEN [w EXCEPT !.ds[d].UnitsModified = TRUE] ELSE w
      w2 == IF i # NullImage THEN [w1 EXCEPT !.img[i].spacing = spacing] ELSE w1
  IN Emit(w2, d, "dataPropertiesChanged")

\* DataSource::setUnits: the units array is created on first use
setUnits(w, d, units, markModified) ==
  LET w1 == IF markModified THEN [w EXCEPT !.ds[d].UnitsModified = TRUE] ELSE w
  IN Emit([w1 EXCEPT !.ds[d].Units = units], d, "dataPropertiesChanged")

\* DataSource::getSpacing
getSpacing(w, d) == IF w.ds[d].image = NullImage THEN 1 ELSE ImageOf(w, d).spacing

\* DataSource::setPersistenceState
setPersistenceState(w, d, state) == [w EXCEPT !.ds[d].PersistState = state]

----------------------------------------------------------------------------
(* DataSource::serialize / deserialize: the part of the document that a     *)
(* source without operators and modules reads back                         *)

\* a plausible slip: scalarsRename[it.key()] = it.value()
RECURSIVE InvertRenamesKeyed(_, _, _)
InvertRenamesKeyed(m, keys, acc) ==
  IF keys = <<>> THEN acc
  ELSE InvertRenamesKeyed(m, Tail(keys), MapPut(acc, Head(keys), MapGet(m, Head(keys))))

\* scalarsRename[it.value()] = it.key(), iterating CurrentToOriginal by key
RECURSIVE InvertRenames(_, _, _)
InvertRenames(m, keys, acc) ==
  IF keys = <<>> THEN acc
  ELSE InvertRenames(m, Tail(keys), MapPut(acc, MapGet(m, Head(keys)), Head(keys)))

\* a plausible slip: the spacing is written whether modified or not
serializedKeysSpacingAlways(w, d) ==
  {"label", "activeScalars", "scalarsRename", "origin", "orientation", "spacing"}
    \cup (IF w.ds[d].UnitsModified /\ w.ds[d].Units # NoUnits
            THEN {"units"} ELSE {})

\* the keys serialize() puts into the document of a source without
\* operators and modules
serializedKeys(w, d) ==
  {"label", "activeScalars", "scalarsRename", "origin", "orientation"}
    \cup (IF w.ds[d].UnitsModified THEN {"spacing"} ELSE {})
    \cup (IF w.ds[d].UnitsModified /\ w.ds[d].Units # NoUnits
            THEN {"units"} ELSE {})

serialize(w, d) ==
  [keys |-> serializedKeys(w, d),
   spacing |-> getSpacing(w, d),
   units |-> w.ds[d].Units,
   label |-> label(w, d),
   activeScalars |-> activeScalars(w, d),
   scalarsRename |->
     InvertRenames(w.ds[d].CurrentToOriginal,
                   SortedKeys(MapKeys(w.ds[d].CurrentToOriginal), 1), {})]

\* the loop over state["scalarsRename"]: QJsonObject iterates sorted by key
RECURSIVE ReplayRenames(_, _, _, _, _)
ReplayRenames(w, d, renames, keys, u) ==
  IF keys = <<>> THEN w
  ELSE ReplayRenames(
         renameScalarsArray(w, d, Head(keys), MapGet(renames, Head(keys)), u),
         d, renames, Tail(keys), u)

deserialize(w, d, state, u) ==
  LET w1 == setLabel(w, d, state.label)
      w2 == ReplayRenames(w1, d, state.scalarsRename,
                          SortedKeys(MapKeys(state.scalarsRename), 1), u)
      w3 == setActiveScalars(w2, d, state.activeScalars, u)
      w4 == IF "spacing" \in state.keys
              THEN setSpacing(w3, d, state.spacing, TRUE) ELSE w3
      w5 == IF "units" \in state.keys
              THEN setUnits(w4, d, state.units, TRUE) ELSE w4
  IN [w5 EXCEPT !.ret = TRUE]

----------------------------------------------------------------------------
(* Construction and clone *)

NoSource ==
  [exists |-> FALSE, image |-> NullImage, Type |-> Volume,
   PersistState |-> "Saved", UnitsModified |-> FALSE, CurrentToOriginal |-> {},
   timeSeriesSteps |-> <<>>, currentTimeStep |-> 0, changingTimeStep |-> FALSE,
   hasLabel |-> FALSE, label |-> "", fileBase |-> "", Units |-> NoUnits]

\* DataSource::ensureActiveArray on an image
ensureActiveArray(im) ==
  IF im.act # 0 \/ Len(im.arrays) = 0 THEN im ELSE [im EXCEPT !.act = 1]

\* DataSource::DataSource(vtkImageData*, ...) and DataSource::init
init(w, d, data, dataType, persistState) ==
  LET w1 == [w EXCEPT !.ds[d] = [NoSource EXCEPT !.exists = TRUE,
                                                 !.Type = dataType,
                                                 !.PersistState = persistState,
                                                 !.image = data]]
      w2 == IF data # NullImage
              THEN [w1 EXCEPT !.img[data] = ensureActiveArray(@)]
              ELSE w1
      w3 == [w2 EXCEPT !.ds[d].CurrentToOriginal =
                          IdentityMap(Range(listScalars(w2, d)))]
  IN updateColorMap(w3, d)

\* TimeSeriesStep::clone applied to every step: each image is deep-copied
\* into a fresh heap object
RECURSIVE CloneSteps(_, _, _)
CloneSteps(heap, steps, acc) ==
  IF steps = <<>> THEN [img |-> heap, steps |-> acc]
  ELSE LET fresh == FreshImage([img |-> heap])
       IN CloneSteps([heap EXCEPT ![fresh] = [heap[Head(steps)] EXCEPT !.held = FALSE]],
                     Tail(steps), Append(acc, fresh))

CanClone(w, d) ==
  Cardinality(ImageIds \ LiveImages(w)) >= Len(w.ds[d].timeSeriesSteps)

\* DataSource::clone: c is the new DataSource object
clone(w, d, c, u) ==
  LET w1 == init(w, c, w.ds[d].image, w.ds[d].Type, "Saved")
      w2 == setLabel(w1, c, label(w, d))
      w3 == setPersistenceState(w2, c, "Modified")
      w4 == IF w.ds[d].Type = TiltSeries
              THEN setTiltAngles(w3, c, getTiltAnglesOf(ImageOf(w, d)), u)
              ELSE w3
      copied == CloneSteps(w4.img, w.ds[d].timeSeriesSteps, <<>>)
      w5 == [w4 EXCEPT !.img = copied.img]
  IN setTimeSeriesSteps(w5, c, copied.steps, u)

----------------------------------------------------------------------------------------------------------------------------------------
(* Inputs *)

Ramp(n, base) == [k \in 1..n |-> base + k]

\* the extent of a volume two voxels wide with nz layers
Ext(nz) == <<0, 1, 0, 0, 0, nz - 1>>

Arr(name, n, base) == [name |-> name, vox |-> Ramp(n, base)]

\* images a reader or an operator hands to the application
Untagged(nz) ==
  MkImage(Ext(nz), <<Arr("a", 2 * nz, 10), Arr("b", 2 * nz, 20)>>, 1,
          NoTag, FALSE, <<>>)
Tagged(nz, t) ==
  MkImage(Ext(nz), <<Arr("a", 2 * nz, 10), Arr("b", 2 * nz, 20)>>, 1,
          t, t = TiltSeries, IF t = TiltSeries THEN Ramp(nz, 0) ELSE <<>>)

\* an untagged two-layer image under another array name
OtherImage ==
  MkImage(Ext(2), <<Arr("c", 4, 30)>>, 1, NoTag, FALSE, <<>>)

MkSlice(ext, vox) == [null |-> FALSE, ext |-> ext, vox |-> vox]
NullSlice == [null |-> TRUE, ext |-> <<0, 0, 0, 0, 0, 0>>, vox |-> <<>>]
SliceInputs ==
  {NullSlice,
   MkSlice(<<0, 1, 0, 0, 0, 0>>, <<8, 9>>),          \* one matching layer
   MkSlice(<<0, 1, 0, 0, 0, 1>>, <<8, 9, 6, 5>>),    \* two matching layers
   MkSlice(<<0, 0, 0, 0, 0, 0>>, <<8>>),             \* narrower
   MkSlice(<<0, 1, 0, 1, 0, 0>>, <<8, 9, 6, 5>>)}    \* taller

AngleInputs == {<<1>>, <<2, 1, 2>>}

NewImages == {OtherImage, Tagged(1, TiltSeries)}

DataImages == {1, 2}
StepLists == UNION {[1..n -> DataImages] : n \in 0..MaxSteps}

KeeperSteps == {<<>>, <<0>>, <<0, 2>>}
KeeperTimes == -1..3

IndexInputs == -1..2
SpacingInputs == {1, 2}
UnitsInputs == {"nm", "um"}
PersistenceStates == {"Saved", "Modified"}
Labels == {"x", "y"}

----------------------------------------------------------------------------
(* Initial states: one DataSource constructed over a loaded image, a        *)
(* second image held by the application                                     *)

InitHeap(images) ==
  [i \in ImageIds |-> IF i <= Len(images) THEN images[i] ELSE FreeImage]

Held(image) == [image EXCEPT !.held = TRUE]

InitWith(images, t, steps) ==
  LET w0 == [img |-> InitHeap(images),
             ds |-> [d \in SourceIds |-> NoSource],
             out |-> <<>>, crashed |-> FALSE, ret |-> TRUE]
      w1 == init(w0, 1, 1, t, "Saved")
  IN /\ img = w1.img
     /\ ds = [w1.ds EXCEPT ![1].fileBase = "f", ![1].timeSeriesSteps = steps]
     /\ out = w1.out
     /\ crashed = FALSE
     /\ last = [op |-> "init", d |-> 1, args |-> <<t>>, ret |-> TRUE]

\* a freshly loaded volume or tilt series
Init ==
  \E first \in {Untagged(1), Tagged(1, TiltSeries)}, t \in Types :
    InitWith(<<first>>, t, <<>>)

\* a source about to be given its time series; the application holds the
\* images of the steps
InitSeries ==
  \E t \in Types, first \in {Tagged(1, Volume), Untagged(1)} :
    InitWith(<<Held(first), Held(Tagged(2, TiltSeries))>>, t, <<>>)

----------------------------------------------------------------------------
(* Actions: one per DataSource operation *)

Apply(w, op, d, args) ==
  /\ img' = w.img
  /\ ds' = w.ds
  /\ out' = w.out
  /\ crashed' = w.crashed
  /\ last' = [op |-> op, d |-> d, args |-> args, ret |-> w.ret]

Callable(d) == ~crashed /\ ds[d].exists

\* a tilt_angles array whose length differs from the z-extent is reallocated
\* by the next createOrResizeTiltAnglesArray
StaleTilt == \E i \in ImageIds : img[i].hasTilt /\ Len(img[i].tilt) # NumZ(img[i])

\* the outcomes of undefined behaviour an operation can meet: reallocation
\* outcomes when a field array can be resized, crash / wild pointer outcomes
\* when the operation indexes out of bounds
UB(bounds) ==
  [keep : IF StaleTilt THEN BOOLEAN ELSE {TRUE},
   fill : Garbage,
   crash : IF bounds THEN BOOLEAN ELSE {FALSE},
   wild : IF bounds THEN {i \in ImageIds : img[i].live} \cup {NullImage}
          ELSE {NullImage}]

\* appendImageData does not read a pointer out of bounds
UBCopy == {u \in UB(TRUE) : u.wild = NullImage}

SetType(d) ==
  /\ Callable(d)
  /\ \E t \in Types, u \in UB(FALSE) :
       Apply(setType(World, d, t, u), "setType", d, <<t>>)

SetTiltAngles(d) ==
  /\ Callable(d)
  /\ \E angles \in AngleInputs, u \in UB(FALSE) :
       Apply(setTiltAngles(World, d, angles, u), "setTiltAngles", d, <<angles>>)

AppendSlice(d) ==
  /\ Callable(d)
  /\ NumZ(img[ds[d].image]) < MaxZ
  /\ \E slice \in SliceInputs, u \in UBCopy :
       Apply(appendSlice(World, d, slice, u), "appendSlice", d, <<slice>>)

\* setData with an image the caller has just produced
SetData(d) ==
  /\ Callable(d)
  /\ \E newData \in NewImages, u \in UB(FALSE) :
       LET w == NewImage(World, newData)
       IN Apply(setData(w, d, FreshImage(World), u), "setData", d, <<newData>>)

CopyData(d) ==
  /\ Callable(d)
  /\ \E newData \in NewImages, u \in UB(FALSE) :
       Apply(copyData(World, d, newData, u), "copyData", d, <<newData>>)

DataModified(d) ==
  /\ Callable(d)
  /\ \E u \in UB(FALSE) :
       Apply(dataModified(World, d, u), "dataModified", d, <<>>)

SwitchTimeSeriesStep(d) ==
  /\ Callable(d)
  /\ \E i \in -1..MaxSteps : \E u \in UB(i < 0) :
       Apply(switchTimeSeriesStep(World, d, i, u), "switchTimeSeriesStep", d, <<i>>)

OnTimeChanged(d) ==
  /\ Callable(d)
  /\ \E ks \in KeeperSteps, time \in KeeperTimes, u \in UB(TRUE) :
       Apply(onTimeChanged(World, d, ks, time, u), "onTimeChanged", d, <<ks, time>>)

SetTimeSeriesSteps(d) ==
  /\ Callable(d)
  /\ \E steps \in StepLists, u \in UB(ds[d].currentTimeStep < 0) :
       Apply(setTimeSeriesSteps(World, d, steps, u), "setTimeSeriesSteps", d, <<steps>>)

AddTimeSeriesStep(d) ==
  /\ Callable(d)
  /\ Len(ds[d].timeSeriesSteps) < MaxSteps
  /\ \E i \in DataImages :
       Apply(addTimeSeriesStep(World, d, i), "addTimeSeriesStep", d, <<i>>)

ClearTimeSeriesSteps(d) ==
  /\ Callable(d)
  /\ Apply(clearTimeSeriesSteps(World, d), "clearTimeSeriesSteps", d, <<>>)

RenameScalarsArray(d) ==
  /\ Callable(d)
  /\ \E oldName \in Names, newName \in Names, u \in UB(FALSE) :
       Apply(renameScalarsArray(World, d, oldName, newName, u),
             "renameScalarsArray", d, <<oldName, newName>>)

SetActiveScalars(d) ==
  /\ Callable(d)
  /\ \E name \in Names, u \in UB(FALSE) :
       Apply(setActiveScalars(World, d, name, u), "setActiveScalars", d, <<name>>)

SetActiveScalarsIdx(d) ==
  /\ Callable(d)
  /\ \E arrayIdx \in IndexInputs, u \in UB(FALSE) :
       Apply(setActiveScalarsIdx(World, d, arrayIdx, u),
             "setActiveScalarsIdx", d, <<arrayIdx>>)

SetPersistenceState(d) ==
  /\ Callable(d)
  /\ \E state \in PersistenceStates :
       Apply(setPersistenceState(World, d, state), "setPersistenceState", d, <<state>>)

SetSpacing(d) ==
  /\ Callable(d)
  /\ \E spacing \in SpacingInputs, markModified \in BOOLEAN :
       Apply(setSpacing(World, d, spacing, markModified),
             "setSpacing", d, <<spacing, markModified>>)

SetUnits(d) ==
  /\ Callable(d)
  /\ \E units \in UnitsInputs, markModified \in BOOLEAN :
       Apply(setUnits(World, d, units, markModified),
             "setUnits", d, <<units, markModified>>)

SetLabel(d) ==
  /\ Callable(d)
  /\ \E text \in Labels :
       Apply(setLabel(World, d, text), "setLabel", d, <<text>>)

\* DataSource::clone called on source 1; the clone is source 2
Clone ==
  /\ Callable(1)
  /\ ~ds[2].exists
  /\ CanClone(World, 1)
  /\ \E u \in UB(FALSE) :
       Apply(clone(World, 1, 2, u), "clone", 1, <<>>)

\* the image a reader delivers when the file of source d is loaded again:
\* the arrays under their original names and, if the format stores them
\* (fieldData = "stored"), the type tag and the tilt angles
ReloadedImage(d, fieldData) ==
  LET im == img[ds[d].image]
      fresh == [im EXCEPT
                  !.held = FALSE,
                  !.act = 1,
                  !.arrays = [k \in 1..Len(im.arrays) |->
                                [im.arrays[k] EXCEPT
                                   !.name = MapGet(ds[d].CurrentToOriginal, @)]]]
  IN IF fieldData = "stored" THEN fresh
     ELSE [fresh EXCEPT !.tag = NoTag, !.hasTilt = FALSE, !.tilt = <<>>]

\* saving the state of source 1 and loading it into a newly created
\* source 2: deserialize(serialize())
LoadState ==
  /\ Callable(1)
  /\ ~ds[2].exists
  /\ \E fieldData \in {"stored", "none"}, t \in Types, u \in UB(FALSE) :
       LET state == serialize(World, 1)
           w1 == NewImage(World, ReloadedImage(1, fieldData))
           w2 == init(w1, 2, FreshImage(World), t, "Saved")
           w3 == [w2 EXCEPT !.ds[2].fileBase = ds[1].fileBase]
       IN Apply(deserialize(w3, 2, state, u), "loadState", 2, <<fieldData, t>>)

----------------------------------------------------------------------------
(* Specifications *)

\* the volume and its metadata
Next ==
  \/ SetType(1)
  \/ SetTiltAngles(1)
  \/ AppendSlice(1)
  \/ SetData(1)
  \/ CopyData(1)
  \/ DataModified(1)
  \/ SwitchTimeSeriesStep(1)

Spec == Init /\ [][Next]_vars

\* the time series
NextSeries ==
  \/ SwitchTimeSeriesStep(1)
  \/ OnTimeChanged(1)
  \/ SetTimeSeriesSteps(1)
  \/ AddTimeSeriesStep(1)
  \/ ClearTimeSeriesSteps(1)

SpecSeries == InitSeries /\ [][NextSeries]_vars

\* the scalar arrays of a source whose data gets replaced
InitScalars == InitWith(<<Untagged(1)>>, Volume, <<>>)

NextScalars ==
  \/ RenameScalarsArray(1)
  \/ SetActiveScalars(1)
  \/ SetActiveScalarsIdx(1)
  \/ SetData(1)
  \/ CopyData(1)

SpecScalars == InitScalars /\ [][NextScalars]_vars

\* editing a source, then saving and loading its state
Unloaded == ~ds[2].exists

NextState ==
  \/ Unloaded /\ SetLabel(1)
  \/ Unloaded /\ RenameScalarsArray(1)
  \/ Unloaded /\ SetActiveScalars(1)
  \/ Unloaded /\ SetType(1)
  \/ Unloaded /\ SetTiltAngles(1)
  \/ Unloaded /\ LoadState

SpecState == Init /\ [][NextState]_vars

\* a source is edited and cloned, then the source or the clone is changed
JustCloned == last.op = "clone"

NextClone ==
  \/ Unloaded /\ SetType(1)
  \/ Unloaded /\ SetActiveScalars(1)
  \/ Clone
  \/ JustCloned /\ \E d \in SourceIds : RenameScalarsArray(d)
  \/ JustCloned /\ \E d \in SourceIds : SetActiveScalars(d)
  \/ JustCloned /\ \E d \in SourceIds : SetType(d)
  \/ JustCloned /\ \E d \in SourceIds : SetTiltAngles(d)
  \/ JustCloned /\ \E d \in SourceIds : AppendSlice(d)

SpecClone == Init /\ [][NextClone]_vars

\* spacing and units of a source are set, then its state is saved and loaded
NextUnits ==
  \/ Unloaded /\ SetSpacing(1)
  \/ Unloaded /\ SetUnits(1)
  \/ Unloaded /\ LoadState

SpecUnits == Init /\ [][NextUnits]_vars

\* a source is given time steps, moved between them and then cloned
NextCloneSeries ==
  \/ Unloaded /\ SetTimeSeriesSteps(1)
  \/ Unloaded /\ AddTimeSeriesStep(1)
  \/ Unloaded /\ SwitchTimeSeriesStep(1)
  \/ Unloaded /\ SetLabel(1)
  \/ Unloaded /\ SetPersistenceState(1)
  \/ Clone

SpecCloneSeries == InitSeries /\ [][NextCloneSeries]_vars

\* an image whose arrays were added without one being made the scalars
Unselected ==
  MkImage(Ext(1), <<Arr("c", 2, 30)>>, 0, NoTag, FALSE, <<>>)

\* images without a type tag, with active scalars or without
PlainImages == {OtherImage, Unselected}

\* setData with a plain image the caller has just produced
SetDataPlain(d) ==
  /\ Callable(d)
  /\ Cardinality(LiveImages(World)) < MaxImages - 1
  /\ \E newData \in PlainImages, u \in UB(FALSE) :
       LET w == NewImage(World, newData)
       IN Apply(setData(w, d, FreshImage(World), u), "setData", d, <<newData>>)

CopyDataPlain(d) ==
  /\ Callable(d)
  /\ \E newData \in PlainImages, u \in UB(FALSE) :
       Apply(copyData(World, d, newData, u), "copyData", d, <<newData>>)

\* the time series is cleared or becomes the one image the application holds
SetOneTimeSeriesStep(d) ==
  /\ Callable(d)
  /\ \E steps \in {<<>>, <<2>>}, u \in UB(ds[d].currentTimeStep < 0) :
       Apply(setTimeSeriesSteps(World, d, steps, u), "setTimeSeriesSteps", d,
             <<steps>>)

\* a volume with two arrays; the application holds a second image, whose
\* array was added without being made the scalars
InitActive == InitWith(<<Untagged(1), Held(Unselected)>>, Volume, <<>>)

\* the arrays of a source whose data is replaced and stepped through time
NextActive ==
  \/ SetDataPlain(1)
  \/ CopyDataPlain(1)
  \/ SwitchTimeSeriesStep(1)
  \/ SetOneTimeSeriesStep(1)
  \/ RenameScalarsArray(1)
  \/ SetActiveScalars(1)

SpecActive == InitActive /\ [][NextActive]_vars

\* the type of a source whose data is replaced, copied over, re-tagged and
\* switched between the steps of a time series
NextType ==
  \/ SetType(1)
  \/ SetData(1)
  \/ CopyData(1)
  \/ DataModified(1)
  \/ SwitchTimeSeriesStep(1)
  \/ SetOneTimeSeriesStep(1)

SpecType == InitSeries /\ [][NextType]_vars

----------------------------------------------------------------------------
(* vtkOMETiffReader: the decoders of one page of a TIFF file                *)

MaxWidth == 5      \* largest image width, in pixels
MaxHeight == 5     \* largest image height, in pixels
MaxPages == 3      \* largest number of directories of a file

ORIENTATION_TOPLEFT == 1
ORIENTATION_BOTLEFT == 4
Orientations == {ORIENTATION_TOPLEFT, ORIENTATION_BOTLEFT}

TileSizes == {2, 3}

PHOTOMETRIC_MINISWHITE == 0
PHOTOMETRIC_MINISBLACK == 1
PHOTOMETRIC_RGB == 2

COMPRESSION_NONE == 1
COMPRESSION_LZW == 5
COMPRESSION_JPEG == 7

PLANARCONFIG_CONTIG == 1
PLANARCONFIG_SEPARATE == 2

\* the fields of vtkOMETiffReaderInternal that select and steer a decoder;
\* an untiled file has tile width and height 0, as Open leaves them
Untiled == 0

\* an unsigned int is held as its 32-bit pattern read as two's complement:
\* a difference below zero stands for that difference plus 2^32, and ULess
\* compares two patterns as the unsigned values they are
ULess(a, b) ==
  IF (a < 0) = (b < 0) THEN a < b ELSE b < 0

\* the sample the file stores at column x of its row y
FilePixel(x, y) == 10 * (y + 1) + x

\* what a tile holds beyond the edge of the image
Pad == -1

\* TIFFReadTile: the whole tile containing pixel (x, y), row after row, or a
\* failure when the pixel lies outside the image
TIFFReadTile(f, x, y) ==
  IF ~ULess(x, f.Width) \/ ~ULess(y, f.Height)
  THEN [ok |-> FALSE, tile |-> <<>>]
  ELSE [ok |-> TRUE,
        tile |-> [n \in 1..(f.TileWidth * f.TileHeight) |->
                   LET fx == ((x \div f.TileWidth) * f.TileWidth)
                               + ((n - 1) % f.TileWidth)
                       fy == ((y \div f.TileHeight) * f.TileHeight)
                               + ((n - 1) \div f.TileWidth)
                   IN IF fx < f.Width /\ fy < f.Height
                      THEN FilePixel(fx, fy) ELSE Pad]]

\* the memcpy calls of one tile: rows yy = 0 .. Len(y) - 1 of the tile, len
\* samples each, to output row base + y[yy + 1] at column col; every write is
\* <<offset into the output buffer, sample>>
CopyTile(f, tile, y, base, col, len) ==
  [n \in 1..(Len(y) * len) |->
     LET yy == (n - 1) \div len
         k == (n - 1) % len
     IN <<((base + y[yy + 1]) * f.Width) + col + k,
          tile[(yy * f.TileWidth) + k + 1]>>]

rowMultiple(f) == f.Height % f.TileHeight = 0
colMultiple(f) == f.Width % f.TileWidth = 0
flip(f) == f.Orientation # ORIENTATION_TOPLEFT

rowBound(f) == IF rowMultiple(f) THEN f.Height ELSE f.Height - f.TileHeight
colBound(f) == IF colMultiple(f) THEN f.Width ELSE f.Width - f.TileWidth

\* y of the full tiles and of the tiles of the last, partial row of tiles
FullTileY(f) ==
  [n \in 1..f.TileHeight |->
     LET yy == n - 1
     IN IF flip(f) THEN f.TileHeight + (f.Height % f.TileHeight) - yy - 1
        ELSE yy]
PartialTileY(f) ==
  [n \in 1..(f.Height % f.TileHeight) |->
     LET yy == n - 1
     IN IF flip(f) THEN (f.Height % f.TileHeight) - yy - 1 ELSE yy]

\* the loop over the columns of one row of full tiles
RECURSIVE TileColumns(_, _, _, _, _)
TileColumns(f, row, r, col, acc) ==
  IF ~ULess(col, colBound(f)) THEN [writes |-> acc, failed |-> FALSE]
  ELSE LET t == TIFFReadTile(f, col, r)
       IN IF ~t.ok THEN [writes |-> acc, failed |-> TRUE]
          ELSE TileColumns(f, row, r, col + f.TileWidth,
                 acc \o CopyTile(f, t.tile, FullTileY(f),
                                 row, col, f.TileWidth))

\* the loop over the rows of full tiles
RECURSIVE TileRows(_, _, _)
TileRows(f, row, acc) ==
  IF ~ULess(row, rowBound(f)) THEN [writes |-> acc, failed |-> FALSE]
  ELSE LET r == IF flip(f) THEN f.Height - row - f.TileHeight ELSE row
           c == TileColumns(f, row, r, 0, acc)
       IN IF c.failed THEN c
          ELSE TileRows(f, row + f.TileHeight, c.writes)

\* the partial tiles of the last column
RECURSIVE ColumnBoundary(_, _, _)
ColumnBoundary(f, row, acc) ==
  IF ~ULess(row, rowBound(f)) THEN [writes |-> acc, failed |-> FALSE]
  ELSE LET lenx == f.Width % f.TileWidth
           col == f.Width - lenx
           r == IF flip(f) THEN f.Height - row - f.TileHeight - 1 ELSE row
           t == TIFFReadTile(f, col, r)
       IN IF ~t.ok THEN [writes |-> acc, failed |-> TRUE]
          ELSE ColumnBoundary(f, row + f.TileHeight,
                 acc \o CopyTile(f, t.tile, FullTileY(f),
                                 row, col, lenx))

\* the partial tiles of the last row
RECURSIVE RowBoundary(_, _, _)
RowBoundary(f, col, acc) ==
  IF ~ULess(col, colBound(f)) THEN [writes |-> acc, failed |-> FALSE]
  ELSE LET leny == f.Height % f.TileHeight
           row == f.Height - leny
           r == IF flip(f) THEN 0 ELSE row
           t == TIFFReadTile(f, col, row)
       IN IF ~t.ok THEN [writes |-> acc, failed |-> TRUE]
          ELSE RowBoundary(f, col + f.TileWidth,
                 acc \o CopyTile(f, t.tile, PartialTileY(f),
                                 r, col, f.TileWidth))

\* the partial tile of the corner
CornerTile(f, acc) ==
  LET lenx == f.Width % f.TileWidth
      col == f.Width - lenx
      leny == f.Height % f.TileHeight
      row == f.Height - leny
      r == IF flip(f) THEN 0 ELSE row
      t == TIFFReadTile(f, col, row)
  IN IF ~t.ok THEN [writes |-> acc, failed |-> TRUE]
     ELSE [writes |-> acc \o CopyTile(f, t.tile, PartialTileY(f),
                                      r, col, lenx),
           failed |-> FALSE]

\* the output buffer after a sequence of writes: a write past the end of the
\* buffer is an overrun, a sample never written keeps what the allocation
\* left there
Decoded(size, fill, p) ==
  [buffer |-> [i \in 1..size |->
                 LET hits == {k \in 1..Len(p.writes) : p.writes[k][1] = i - 1}
                 IN IF hits = {} THEN fill
                    ELSE p.writes[CHOOSE k \in hits :
                                    \A j \in hits : j <= k][2]],
   failed |-> p.failed,
   overrun |-> \E k \in 1..Len(p.writes) : ~ULess(p.writes[k][1], size)]

ReadTiles(f, fill) ==
  LET p1 == TileRows(f, 0, <<>>)
      p2 == IF p1.failed \/ colMultiple(f) THEN p1
            ELSE ColumnBoundary(f, 0, p1.writes)
      p3 == IF p2.failed \/ rowMultiple(f) THEN p2
            ELSE RowBoundary(f, 0, p2.writes)
      p4 == IF p3.failed \/ colMultiple(f) \/ rowMultiple(f) THEN p3
            ELSE CornerTile(f, p3.writes)
  IN Decoded(f.Width * f.Height, fill, p4)

\* GetFormat: the image format of a photometric interpretation
GetFormat(f) ==
  IF f.Photometrics = PHOTOMETRIC_RGB THEN "RGB" ELSE "GRAYSCALE"

CanRead(f) ==
  /\ f.SamplesPerPixel > 0
  /\ f.Compression \in {COMPRESSION_NONE, COMPRESSION_LZW}
  /\ f.Photometrics \in {PHOTOMETRIC_RGB, PHOTOMETRIC_MINISWHITE,
                         PHOTOMETRIC_MINISBLACK}
  /\ f.PlanarConfig = PLANARCONFIG_CONTIG

\* the components of an output pixel, as ExecuteInformation sets them
NumberOfScalarComponents(f) ==
  IF f.SamplesPerPixel = 2 THEN 3
  ELSE IF ~CanRead(f) THEN 4
  ELSE IF GetFormat(f) = "RGB" THEN f.SamplesPerPixel
  ELSE 1

\* sample c of pixel (x, y) of the directory the file is positioned at; the
\* pages of a file hold different samples
FileSample(f, x, y, c) ==
  (f.SamplesPerPixel * FilePixel(x, y)) + c + (64 * f.Page)

\* TIFFReadScanline: the samples of file row y, pixel after pixel
TIFFReadScanline(f, y) ==
  [n \in 1..(f.Width * f.SamplesPerPixel) |->
     FileSample(f, (n - 1) \div f.SamplesPerPixel, y,
                (n - 1) % f.SamplesPerPixel)]

\* the scanlines of BadRows cannot be read: of the rows a loop asks for in
\* turn, those it requests up to and including the first that fails, and
\* those it obtains
Requested(f, rows) ==
  LET bad == {i \in 1..Len(rows) : rows[i] \in f.BadRows}
  IN IF bad = {} THEN rows
     ELSE SubSeq(rows, 1, CHOOSE i \in bad : \A j \in bad : i <= j)

Obtained(f, rows) ==
  IF Requested(f, rows) = rows /\ (rows = <<>> \/ rows[Len(rows)] \notin f.BadRows)
  THEN rows ELSE SubSeq(rows, 1, Len(Requested(f, rows)) - 1)

\* the requests for the scanlines `rows` of sample plane s, as the file sees
\* them: <<directory, row, sample plane>>
Reads(f, rows, s) == [i \in 1..Len(rows) |-> <<f.Page, rows[i], s>>]

\* the rows from a to b, in rising order
RowsFromTo(a, b) == [i \in 1..(b - a + 1) |-> a + i - 1]

GetFileRow(row, height, flipped) ==
  IF flipped THEN height - row - 1 ELSE row

GetImageRow(file_row, height, flipped) == GetFileRow(file_row, height, flipped)

SupportsRandomAccess(f) ==
  f.Compression = COMPRESSION_NONE \/ f.RowsPerStrip = 1

\* the rows read and dropped before fileStartRow, and whether all were read
PurgeInitialScanLinesIfNeeded(f, fileStartRow) ==
  IF fileStartRow = 0 \/ SupportsRandomAccess(f)
  THEN [rows |-> <<>>, ok |-> TRUE]
  ELSE [rows |-> Requested(f, RowsFromTo(0, fileStartRow - 1)),
        ok |-> Obtained(f, RowsFromTo(0, fileStartRow - 1))
                 = RowsFromTo(0, fileStartRow - 1)]

\* the scanline copy of the fast path over rows StartRow .. EndRow of the
\* output and all its columns; failed is the negated return value
ReadTemplatedImage(f, flipped, yIncrements) ==
  LET startRow == f.StartRow
      endRow == f.EndRow
      fileStartRow == GetFileRow(startRow, f.Height, flipped)
      fileEndRow == GetFileRow(endRow, f.Height, flipped)
      minFileRow == IF fileStartRow < fileEndRow THEN fileStartRow
                    ELSE fileEndRow
      maxFileRow == IF fileStartRow < fileEndRow THEN fileEndRow
                    ELSE fileStartRow
      isize == f.Width * f.SamplesPerPixel
      purged == PurgeInitialScanLinesIfNeeded(f, minFileRow)
      rows == RowsFromTo(minFileRow, maxFileRow)
      got == Obtained(f, rows)
  IN IF ~purged.ok
     THEN [writes |-> <<>>, failed |-> TRUE,
           reads |-> Reads(f, purged.rows, 0), errors |-> 0]
     ELSE [writes |->
             [n \in 1..(Len(got) * isize) |->
                LET fi == got[((n - 1) \div isize) + 1]
                    k == (n - 1) % isize
                    i == GetImageRow(fi, f.Height, flipped)
                IN <<((i - startRow) * yIncrements) + k,
                     TIFFReadScanline(f, fi)[k + 1]>>],
           failed |-> got # rows,
           reads |-> Reads(f, purged.rows \o Requested(f, rows), 0),
           errors |-> 0]

\* EvaluateImageAt: the values stored at out, out + 1, ... for the pixel whose
\* samples start at offset cc of the scanline, and the value returned; a
\* sample read beyond the scanline buffer is whatever lies there
EvaluateImageAt(f, scan, cc, over) ==
  LET source(j) == IF cc + j < Len(scan) THEN scan[cc + j + 1] ELSE over
  IN IF GetFormat(f) = "GRAYSCALE"
     THEN [out |-> IF f.Photometrics = PHOTOMETRIC_MINISBLACK
                   THEN <<source(0)>> ELSE <<255 - source(0)>>,
           ret |-> 1]
     ELSE [out |-> <<source(0), source(1), source(2)>>,
           ret |-> f.SamplesPerPixel]

\* pixel after pixel of the rows of one decoder: the pixels of the k-th row
\* read are converted from scanline fileRowOf[k] to offset rowStart[k] +
\* ix * step
PixelWrites(f, over, fileRowOf, rowStart, step) ==
  LET per == Len(EvaluateImageAt(f, TIFFReadScanline(f, 0), 0, over).out)
  IN [n \in 1..(Len(fileRowOf) * f.Width * per) |->
        LET row == (n - 1) \div (f.Width * per)
            ix == ((n - 1) \div per) % f.Width
            c == (n - 1) % per
            e == EvaluateImageAt(f, TIFFReadScanline(f, fileRowOf[row + 1]),
                                 ix * f.SamplesPerPixel, over)
        IN <<rowStart[row + 1] + (ix * step) + c, e.out[c + 1]>>]

\* errors counts the vtkErrorMacro reports of the decoder
ReadGenericImage(f, over) ==
  LET OutputIncrements0 == NumberOfScalarComponents(f)
      OutputIncrements1 == f.Width * OutputIncrements0
      fast == ReadTemplatedImage(f, f.Orientation # ORIENTATION_TOPLEFT,
                                 OutputIncrements1)
      rows == [n \in 1..(f.EndRow - f.StartRow + 1) |->
                 LET row == f.StartRow + n - 1
                 IN IF f.Orientation = ORIENTATION_TOPLEFT THEN row
                    ELSE f.Height - row - 1]
      got == Obtained(f, rows)
  IN IF /\ f.PlanarConfig = PLANARCONFIG_CONTIG
        /\ OutputIncrements0 = 1
        /\ GetFormat(f) = "GRAYSCALE"
        /\ f.Photometrics = PHOTOMETRIC_MINISBLACK
        /\ f.SamplesPerPixel = 1
     THEN [fast EXCEPT !.errors = IF fast.failed THEN 1 ELSE 0]
     ELSE IF f.PlanarConfig # PLANARCONFIG_CONTIG
     THEN [writes |-> <<>>, failed |-> FALSE, reads |-> <<>>, errors |-> 1]
     ELSE [writes |->
             PixelWrites(f, over, got,
               [n \in 1..Len(got) |-> (n - 1) * OutputIncrements1],
               OutputIncrements0),
           failed |-> got # rows,
           reads |-> Reads(f, Requested(f, rows), 0),
           errors |-> IF got # rows THEN 1 ELSE 0]

\* the unsigned char branches. Contiguous samples: inc is 1 until the first
\* pixel has been evaluated and the value EvaluateImageAt returned from then
\* on. Separate planes: every plane is read from its first row, whatever the
\* plane before it met
ReadTwoSamplesPerPixelImage(f, over) ==
  LET ret == EvaluateImageAt(f, TIFFReadScanline(f, 0), 0, over).ret
      inc(row) == IF row = 0 THEN 1 ELSE ret
      rows == RowsFromTo(0, f.Height - 1)
      got == Obtained(f, rows)
      image(row, i) == IF f.Orientation = ORIENTATION_TOPLEFT
                       THEN row * f.Width * i
                       ELSE f.Width * i * (f.Height - (row + 1))
      plane(s) ==
        [n \in 1..(Len(got) * f.Width) |->
           LET row == got[((n - 1) \div f.Width) + 1]
               cc == (n - 1) % f.Width
           IN <<image(row, 3) + s + (3 * cc), FileSample(f, cc, row, s)>>]
  IN IF f.PlanarConfig = PLANARCONFIG_CONTIG
     THEN [writes |->
             PixelWrites(f, over, got,
                         [n \in 1..Len(got) |-> image(got[n], inc(got[n]))],
                         ret),
           failed |-> got # rows,
           reads |-> Reads(f, Requested(f, rows), 0),
           errors |-> IF got # rows THEN 1 ELSE 0]
     ELSE [writes |-> plane(0) \o plane(1),
           failed |-> got # rows,
           reads |-> Reads(f, Requested(f, rows), 0)
                       \o Reads(f, Requested(f, rows), 1),
           errors |-> IF got # rows THEN 2 ELSE 0]

\* the red, green, blue and alpha of a grey sample
RGBA(f, v) ==
  LET g == IF f.Photometrics = PHOTOMETRIC_MINISWHITE THEN 255 - v ELSE v
  IN <<g, g, g, 255>>

\* TIFFReadRGBAImage: the raster starts at the lower left corner of the
\* picture, so its row 0 is the last row of a top-left file and the first row
\* of a bottom-left file
TIFFReadRGBAImage(f) ==
  [n \in 1..(f.Width * f.Height) |->
     LET ry == (n - 1) \div f.Width
         y == IF f.Orientation = ORIENTATION_TOPLEFT THEN f.Height - ry - 1
              ELSE ry
     IN RGBA(f, FileSample(f, (n - 1) % f.Width, y, 0))]

\* the copy of a raster into the four components of every output pixel,
\* output row yy from raster row rasterRow[yy + 1]
CopyRaster(f, rasterRow) ==
  LET tempImage == TIFFReadRGBAImage(f)
  IN [writes |->
        [n \in 1..(f.Width * f.Height * 4) |->
           LET yy == (n - 1) \div (f.Width * 4)
               xx == ((n - 1) \div 4) % f.Width
           IN <<n - 1,
                tempImage[(rasterRow[yy + 1] * f.Width) + xx + 1][((n - 1) % 4) + 1]>>],
      failed |-> FALSE, reads |-> <<>>, errors |-> 0]

ReadImageInternal(f, over) ==
  IF ~CanRead(f) THEN CopyRaster(f, [n \in 1..f.Height |-> n - 1])
  ELSE ReadGenericImage(f, over)

\* the directories with a sub-file type tag of 0, as Initialize counts them;
\* a directory is <<>> when it has no such tag and <<type>> otherwise
SubFiles(f) ==
  IF f.NumberOfPages > 1
  THEN Cardinality({d \in 1..Len(f.Directories) : f.Directories[d] = <<0>>})
  ELSE 0

\* TIFFReadDirectory: the next directory, or the same one after the last
TIFFReadDirectory(f, dir) ==
  IF dir + 1 < Len(f.Directories) THEN dir + 1 ELSE dir

\* the writes of a decoder that was handed the buffer advanced by offset
AtOffset(p, offset) ==
  [p EXCEPT !.writes =
     [n \in 1..Len(p.writes) |->
        <<p.writes[n][1] + offset, p.writes[n][2]>>]]

\* one decoder after another
Then(p, q) ==
  [writes |-> p.writes \o q.writes, failed |-> p.failed \/ q.failed,
   reads |-> p.reads \o q.reads, errors |-> p.errors + q.errors]

\* the page loop from iteration `page` on, the file positioned at directory
\* dir and `slice` slices decoded so far
RECURSIVE ReadVolumeFrom(_, _, _, _, _, _)
ReadVolumeFrom(f, over, page, dir, slice, acc) ==
  IF ~(page < f.OmeSizeZ) THEN acc
  ELSE
    LET g == [f EXCEPT !.Page = dir]
        subfiletype == f.Directories[dir + 1]
        area == f.Width * f.Height
        next == TIFFReadDirectory(f, dir)
    IN IF SubFiles(f) > 0 /\ subfiletype # <<>> /\ subfiletype[1] # 0
       THEN ReadVolumeFrom(f, over, page + 1, next, slice, acc)
       ELSE IF f.SamplesPerPixel = 2
       THEN Then(acc, AtOffset(ReadTwoSamplesPerPixelImage(g, over),
                               area * slice * f.SamplesPerPixel))
       ELSE IF ~CanRead(f)
       THEN ReadVolumeFrom(f, over, page + 1, next, slice + 1,
              Then(acc, AtOffset(
                     CopyRaster(g, [n \in 1..f.Height |->
                                     LET yy == n - 1
                                     IN IF f.Orientation # ORIENTATION_TOPLEFT
                                        THEN yy ELSE f.Height - yy - 1]),
                     area * 4 * slice)))
       ELSE ReadVolumeFrom(f, over, page + 1, next, slice + 1,
              Then(acc, AtOffset(ReadGenericImage(g, over),
                                 area * slice * f.SamplesPerPixel)))

ReadVolume(f, over) ==
  ReadVolumeFrom(f, over, 0, 0, 0,
    [writes |-> <<>>, failed |-> FALSE, reads |-> <<>>, errors |-> 0])

\* the storage layouts the scanline decoders meet: grey with black or white
\* as zero, two-sample RGB, and a compression the reader cannot read itself
SampleLayouts ==
  {[SamplesPerPixel |-> 1, Photometrics |-> PHOTOMETRIC_MINISBLACK,
    Compression |-> COMPRESSION_NONE],
   [SamplesPerPixel |-> 1, Photometrics |-> PHOTOMETRIC_MINISWHITE,
    Compression |-> COMPRESSION_NONE],
   [SamplesPerPixel |-> 1, Photometrics |-> PHOTOMETRIC_MINISBLACK,
    Compression |-> COMPRESSION_JPEG],
   [SamplesPerPixel |-> 2, Photometrics |-> PHOTOMETRIC_RGB,
    Compression |-> COMPRESSION_NONE]}

\* an untiled file of the given geometry, layout and directories, positioned
\* at its first directory; sizeZ is the SizeZ of its OME-XML. Its samples are
\* contiguous, all its rows lie in one strip and can be read, the whole
\* image is asked for, and its ImageDescription is OME-XML
StripFile(w, h, o, l, dirs, sizeZ) ==
  [Width |-> w, Height |-> h, TileWidth |-> Untiled, TileHeight |-> Untiled,
   Orientation |-> o, NumberOfPages |-> Len(dirs),
   SamplesPerPixel |-> l.SamplesPerPixel, Photometrics |-> l.Photometrics,
   Compression |-> l.Compression, PlanarConfig |-> PLANARCONFIG_CONTIG,
   RowsPerStrip |-> h, BadRows |-> {}, StartRow |-> 0, EndRow |-> h - 1,
   Exists |-> TRUE, Description |-> "OME",
   Directories |-> dirs, OmeSizeZ |-> sizeZ, Page |-> 0]

\* untiled files of one page or two, none of the pages a sub-file
StripFiles ==
  {StripFile(w, h, o, l, [d \in 1..n |-> <<>>], n) :
     w \in 1..MaxWidth, h \in 1..MaxHeight, o \in Orientations,
     n \in {1, 2}, l \in SampleLayouts}

\* the directories of a file of MaxPages pages at most, each without a
\* sub-file type, a primary page (type 0) or a reduced copy (type 1)
DirectoryLists ==
  UNION {[1..n -> {<<>>, <<0>>, <<1>>}] : n \in 2..MaxPages}

\* multi-page files: SizeZ counts the primary pages or all directories
PagedFiles ==
  {StripFile(w, h, o, l, dirs, z) :
     w \in {1, 2}, h \in {1, 2}, o \in Orientations, l \in SampleLayouts,
     dirs \in DirectoryLists, z \in 1..MaxPages}

\* tiled single-page files of one 8-bit grey sample per pixel
TiledFiles ==
  {[StripFile(w, h, o,
              [SamplesPerPixel |-> 1, Photometrics |-> PHOTOMETRIC_MINISBLACK,
               Compression |-> COMPRESSION_NONE], << <<>> >>, 1)
      EXCEPT !.TileWidth = tw, !.TileHeight = th] :
     w \in 1..MaxWidth, h \in 1..MaxHeight, o \in Orientations,
     tw \in TileSizes, th \in TileSizes}

\* files one of whose scanlines cannot be read, of one page or two, in the
\* layouts the scanline decoders are given: one sample per pixel, or two,
\* contiguous or in separate planes, in a file of two pages
FailingFiles ==
  {f \in {[StripFile(w, h, o, l, [d \in 1..n |-> <<>>], n)
             EXCEPT !.BadRows = {b}, !.PlanarConfig = pc] :
            w \in {1, 2}, h \in {1, 2, 3}, o \in Orientations, n \in {1, 2},
            b \in {0, 1, 2},
            l \in {x \in SampleLayouts : x.Compression = COMPRESSION_NONE},
            pc \in {PLANARCONFIG_CONTIG, PLANARCONFIG_SEPARATE}} :
     /\ f.BadRows \subseteq 0..(f.Height - 1)
     /\ f.SamplesPerPixel = 1 => f.PlanarConfig = PLANARCONFIG_CONTIG
     /\ f.SamplesPerPixel = 2 => f.NumberOfPages = 2}

\* TIFFNumberOfTiles, read only for a tiled file of at most one page
NumberOfTiles(f) ==
  IF f.NumberOfPages <= 1 /\ f.TileWidth # Untiled
  THEN ((f.Width + f.TileWidth - 1) \div f.TileWidth)
         * ((f.Height + f.TileHeight - 1) \div f.TileHeight)
  ELSE 0

\* a file opened by the reader, nothing decoded yet
Opened(f) ==
  /\ img = InitHeap(<<>>)
  /\ ds = [d \in SourceIds |-> NoSource]
  /\ out = <<>>
  /\ crashed = FALSE
  /\ last = [op |-> "Open", d |-> 0, args |-> <<f>>, ret |-> TRUE]

InitTiles == \E f \in TiledFiles : Opened(f)

\* a decoder has run: its buffer is the result; an overrun of the buffer may
\* end the process
Decode(op, f, res) ==
  /\ \E crash \in (IF res.overrun THEN BOOLEAN ELSE {FALSE}) : crashed' = crash
  /\ last' = [op |-> op, d |-> 0, args |-> <<f>>, ret |-> res]
  /\ UNCHANGED <<img, ds, out>>

ProcessTiles ==
  /\ last.op = "Open"
  /\ last.args[1].NumberOfPages <= 1
  /\ NumberOfTiles(last.args[1]) > 0
  /\ \E fill \in Garbage :
       Decode("ReadTiles", last.args[1], ReadTiles(last.args[1], fill))

\* the decoders write into the scalars ExecuteDataWithInformation allocated
PlaneSize(f) ==
  f.Width * (f.EndRow - f.StartRow + 1) * NumberOfScalarComponents(f)

\* the buffer, the requests made of the file and the errors reported
Traced(size, fill, p) ==
  Decoded(size, fill, p) @@ [reads |-> p.reads, errors |-> p.errors]

ProcessVolume ==
  /\ last.op = "Open"
  /\ last.args[1].NumberOfPages > 1
  /\ \E fill \in Garbage, over \in Garbage :
       Decode("ReadVolume", last.args[1],
              Traced(last.args[1].OmeSizeZ * PlaneSize(last.args[1]), fill,
                      ReadVolume(last.args[1], over)))

ProcessImage ==
  /\ last.op = "Open"
  /\ last.args[1].NumberOfPages <= 1
  /\ NumberOfTiles(last.args[1]) = 0
  /\ \E fill \in Garbage, over \in Garbage :
       Decode("ReadImageInternal", last.args[1],
              Traced(PlaneSize(last.args[1]), fill,
                      ReadImageInternal(last.args[1], over)))

NextTiles == ProcessTiles

SpecTiles == InitTiles /\ [][NextTiles]_vars

InitDecode == \E f \in TiledFiles \cup StripFiles : Opened(f)

NextDecode ==
  \/ ProcessVolume
  \/ ProcessTiles
  \/ ProcessImage

SpecDecode == InitDecode /\ [][NextDecode]_vars

InitPages == \E f \in PagedFiles : Opened(f)

NextPages == ProcessVolume

SpecPages == InitPages /\ [][NextPages]_vars

\* what TIFFTAG_IMAGEDESCRIPTION holds: nothing, text that is not XML, XML
\* whose root is not OME, or OME-XML
Descriptions == {"absent", "unparsable", "not OME", "OME"}

\* vtkOMETiffReaderInternal::Initialize: whether it returns true
Initialize(f) == f.Description = "OME"

\* vtkOMETiffReaderInternal::Open: whether it returns true and leaves the
\* file open; when stat, TIFFOpen or Initialize fails the file is closed by
\* Clean
Open(f) ==
  IF ~f.Exists THEN FALSE
  ELSE IF ~Initialize(f) THEN FALSE
  ELSE TRUE

\* files that exist or not, with every description, in supported layouts and
\* in unsupported ones
OpenFiles ==
  {f \in {[StripFile(w, h, o, l, [d \in 1..n |-> <<>>], n)
             EXCEPT !.Exists = e, !.Description = x, !.PlanarConfig = pc] :
            w \in {1, 2}, h \in {1, 2}, o \in Orientations, n \in {1, 2},
            l \in SampleLayouts, e \in BOOLEAN, x \in Descriptions,
            pc \in {PLANARCONFIG_CONTIG, PLANARCONFIG_SEPARATE}} :
     f.SamplesPerPixel = 1 => f.PlanarConfig = PLANARCONFIG_CONTIG}

\* a reader that was given the name of file f
Named(f) ==
  /\ img = InitHeap(<<>>)
  /\ ds = [d \in SourceIds |-> NoSource]
  /\ out = <<>>
  /\ crashed = FALSE
  /\ last = [op |-> "SetFileName", d |-> 0, args |-> <<f>>, ret |-> FALSE]

InitOpen == \E f \in OpenFiles : Named(f)

\* ExecuteInformation opens the file; when Open fails it reports the error
\* and describes an output of one voxel of one component
ExecuteInformation ==
  /\ last.op = "SetFileName"
  /\ last' = [op |-> IF Open(last.args[1]) THEN "Open" ELSE "CannotOpen",
              d |-> 0, args |-> last.args, ret |-> Open(last.args[1])]
  /\ UNCHANGED <<img, ds, out, crashed>>

\* Process on a reader whose Open failed: the cleaned reader has no pages and
\* no tiles, Process2 fails to open the file again and returns, and the one
\* voxel allocated is left as it was
ProcessUnopened ==
  /\ last.op = "CannotOpen"
  /\ \E fill \in Garbage :
       Decode("Process2", last.args[1],
              [buffer |-> <<fill>>, failed |-> FALSE, overrun |-> FALSE,
               reads |-> <<>>, errors |-> 1])

NextOpen ==
  \/ ExecuteInformation
  \/ ProcessUnopened
  \/ ProcessVolume
  \/ ProcessImage

SpecOpen == InitOpen /\ [][NextOpen]_vars

InitFailing == \E f \in FailingFiles : Opened(f)

NextFailing ==
  \/ ProcessVolume
  \/ ProcessImage

SpecFailing == InitFailing /\ [][NextFailing]_vars

\* readable files, compressed or not, in strips of one row or of all rows,
\* of which any range of rows is asked for when they have one page
StreamFiles ==
  {f \in {[StripFile(w, h, o, l, [d \in 1..n |-> <<>>], n)
             EXCEPT !.Compression = c, !.RowsPerStrip = rps,
                    !.StartRow = a, !.EndRow = b] :
            w \in {1, 2}, h \in {1, 2, 3}, o \in Orientations, n \in {1, 2},
            l \in {x \in SampleLayouts : x.Compression = COMPRESSION_NONE},
            c \in {COMPRESSION_NONE, COMPRESSION_LZW}, rps \in {1, 2, 3},
            a \in {0, 1, 2}, b \in {0, 1, 2}} :
     /\ f.StartRow <= f.EndRow /\ f.EndRow < f.Height
     /\ f.RowsPerStrip <= f.Height
     /\ f.NumberOfPages > 1 => (f.StartRow = 0 /\ f.EndRow = f.Height - 1)}

InitStream == \E f \in StreamFiles : Opened(f)

NextStream ==
  \/ ProcessVolume
  \/ ProcessImage

SpecStream == InitStream /\ [][NextStream]_vars

----------------------------------------------------------------------------
(* vtkOMETiffReader: the physical pixel sizes and units of the OME-XML      *)

\* The attributes of the Pixels element are two maps, the numeric ones and
\* the textual ones, keyed by <<name, axis>>: <<"PhysicalSize", 1>> is the
\* attribute PhysicalSizeX, <<"PhysicalSizeUnit", 3>> is PhysicalSizeZUnit

\* pugi::xml_attribute::as_float: 0 for an attribute that does not exist
as_float(attributes, k) ==
  IF MapHas(attributes, k) THEN (CHOOSE p \in attributes : p[1] = k)[2] ELSE 0

\* pugi::xml_attribute::as_string: "" for an attribute that does not exist
as_string(attributes, k) == MapGet(attributes, k)

\* vtkOMETiffReaderInternal::Clean: what it leaves in OmePhysicalPixelSize
\* and OmePhysicalPixelUnits
Clean ==
  [OmePhysicalPixelSize |-> [a \in 1..3 |-> 1],
   OmePhysicalPixelUnits |-> [a \in 1..3 |-> "um"]]

\* vtkOMETiffReaderInternal::Initialize, the attributes of Pixels: the
\* attribute tested is PhysicalSize*, the attribute read PhysicalPixelSize*
InitializePixels(ome, pixelNode) ==
  [OmePhysicalPixelSize |->
     [a \in 1..3 |->
        IF MapHas(pixelNode.sizes, <<"PhysicalSize", a>>)
        THEN as_float(pixelNode.sizes, <<"PhysicalPixelSize", a>>)
        ELSE ome.OmePhysicalPixelSize[a]],
   OmePhysicalPixelUnits |->
     [a \in 1..3 |->
        IF MapHas(pixelNode.units, <<"PhysicalSizeUnit", a>>)
        THEN as_string(pixelNode.units, <<"PhysicalPixelSizeUnit", a>>)
        ELSE ome.OmePhysicalPixelUnits[a]]]

\* vtkOMETiffReaderInternal::Open: Clean, then Initialize on the opened file
OpenPixels(f) ==
  IF Open(f) THEN InitializePixels(Clean, f.Pixels) ELSE Clean

\* vtkOMETiffReader::Process: what the internal image holds when it returns.
\* Every path ends in Clean: after ReadVolume, after ReadTiles, and, for a
\* file read on its own, before Process2 opens it again and after Process2
Process(f, ome) ==
  IF f.NumberOfPages > 1 THEN Clean
  ELSE IF NumberOfTiles(f) > 0 THEN Clean
  ELSE LET reopened == OpenPixels(f)
       IN Clean

\* vtkOMETiffReader::ExecuteDataWithInformation: the units field array and
\* the spacing it attaches to the output, read after Process has returned
ExecuteDataWithInformation(f, ome) ==
  LET after == Process(f, ome)
  IN [units |-> after.OmePhysicalPixelUnits,
      spacing |-> after.OmePhysicalPixelSize]

\* Pixels elements: the sizes and units of some axes declared, as 2 nm,
\* under the names of the OME schema, and with them or not the attributes
\* of the names Initialize reads
PixelsElements ==
  {[sizes |-> {<<<<"PhysicalSize", a>>, 2>> : a \in S}
                \cup (IF x THEN {<<<<"PhysicalPixelSize", a>>, 2>> : a \in S}
                      ELSE {}),
    units |-> {<<<<"PhysicalSizeUnit", a>>, "nm">> : a \in U}
                \cup (IF x THEN {<<<<"PhysicalPixelSizeUnit", a>>, "nm">> : a \in U}
                      ELSE {})] :
     S \in SUBSET (1..3), U \in SUBSET (1..3), x \in BOOLEAN}

\* a file of two pages, a tiled file and a file read on its own, each with
\* every Pixels element
PixelFiles ==
  {f @@ [Pixels |-> px] :
     f \in {g \in StripFiles \cup TiledFiles :
              /\ g.Width = 2 /\ g.Height = 2
              /\ g.Orientation = ORIENTATION_TOPLEFT
              /\ g.SamplesPerPixel = 1
              /\ g.Photometrics = PHOTOMETRIC_MINISBLACK
              /\ g.Compression = COMPRESSION_NONE
              /\ g.TileWidth \in {Untiled, 2} /\ g.TileHeight \in {Untiled, 2}},
     px \in PixelsElements}

InitPixels == \E f \in PixelFiles : Opened(f)

ExecuteData ==
  /\ last.op = "Open"
  /\ last' = [op |-> "ExecuteDataWithInformation", d |-> 0,
              args |-> last.args,
              ret |-> ExecuteDataWithInformation(last.args[1],
                                                 OpenPixels(last.args[1]))]
  /\ UNCHANGED <<img, ds, out, crashed>>

NextPixels == ExecuteData

SpecPixels == InitPixels /\ [][NextPixels]_vars

----------------------------------------------------------------------------
(* DataSource::deserialize: modules, operators and the pipeline *)

\* the entries of the modules array and of the operators array at most
MaxEntries == 2

\* the pipeline-finished events followed after a load at most
MaxFinished == 2

\* an entry of "modules": whether Module::deserialize accepts it
ModuleEntries == [ok : BOOLEAN]

\* an entry of "operators": whether the factory knows its type, whether
\* Operator::deserialize accepts it, whether it has a "dataSources" key and
\* whether the first of these has "operators" of its own
OperatorEntries ==
  {e \in [known : BOOLEAN, ok : BOOLEAN, dataSources : BOOLEAN,
          childOperators : BOOLEAN] :
     /\ e.childOperators => e.dataSources
     /\ ~e.known => e.ok}

\* a key of the document: absent, present without being an array, or an
\* array of entries
Field(entries) ==
  {[present |-> FALSE, isArray |-> FALSE, entries |-> <<>>],
   [present |-> TRUE, isArray |-> FALSE, entries |-> <<>>]}
  \cup {[present |-> TRUE, isArray |-> TRUE, entries |-> e] :
          e \in UNION {[1..n -> entries] : n \in 0..MaxEntries}}

Documents ==
  [modules : Field(ModuleEntries), operators : Field(OperatorEntries)]

\* what the collaborators of a data source hold: the modules and operators
\* added (by entry), whether the pipeline is paused, the executions started,
\* whether the one-shot connection to Pipeline::finished exists and for
\* which entry, the calls of the child's deserialize, the pipelines the
\* module manager waits for, the Pipeline::finished events so far, whether
\* the operator had a child data source at the latest of them, and the calls
\* made, in order
Collaborators(paused) ==
  [modules |-> <<>>, operators |-> <<>>, paused |-> paused, executions |-> 0,
   connected |-> 0, childCalls |-> 0, waitFor |-> 0, finished |-> 0,
   child |-> FALSE, trace |-> <<>>]

Called(c, what, i) == [c EXCEPT !.trace = Append(@, <<what, i>>)]

\* Pipeline::pause and Pipeline::resume set and clear the flag; an execution
\* asked of a paused pipeline does not start
pause(c) == [Called(c, "pause", 0) EXCEPT !.paused = TRUE]

resume(c) == [Called(c, "resume", 0) EXCEPT !.paused = FALSE]

execute(c, i) ==
  IF c.paused THEN c
  ELSE [Called(c, "execute", i) EXCEPT !.executions = @ + 1]

\* the pipeline executes from an operator that is added to its data source
addOperator(c, i) ==
  execute([Called(c, "addOperator", i) EXCEPT !.operators = Append(@, i)], i)

\* the module of every entry is created, added and handed its entry; what
\* Module::deserialize returns is not looked at
RECURSIVE deserializeModules(_, _, _)
deserializeModules(c, moduleArray, i) ==
  IF i > Len(moduleArray) THEN c
  ELSE deserializeModules(
         Called([Called(c, "createAndAddModule", i)
                   EXCEPT !.modules = Append(@, i)],
                "Module::deserialize", i),
         moduleArray, i + 1)

\* the loop over the operators array
RECURSIVE createOperators(_, _, _)
createOperators(c, operatorArray, i) ==
  IF i > Len(operatorArray) THEN c
  ELSE
    LET created == Called(c, "createOperator", i)
        read == IF operatorArray[i].known
                THEN Called(created, "Operator::deserialize", i)
                ELSE created
    IN createOperators(
         IF operatorArray[i].known /\ operatorArray[i].ok
         THEN addOperator(read, i) ELSE read,
         operatorArray, i + 1)

\* the restoration of a child data source is left to the first
\* Pipeline::finished, when the last entry gave an operator and has a
\* "dataSources" key
connectChild(c, operatorArray) ==
  LET n == Len(operatorArray)
  IN IF n > 0 /\ operatorArray[n].known /\ operatorArray[n].dataSources
     THEN [Called(c, "connect", n)
             EXCEPT !.connected = n,
                    !.waitFor = IF operatorArray[n].childOperators
                                THEN @ + 1 ELSE @]
     ELSE c

\* deserializeOperators without the pause
deserializeOperatorsUnpaused(c, state, executePipelinesOnLoad) ==
  LET c1 == IF state.modules.present /\ state.modules.isArray
            THEN deserializeModules(c, state.modules.entries, 1) ELSE c
      c3 == createOperators(c1, state.operators.entries, 1)
      c4 == connectChild(c3, state.operators.entries)
      c5 == IF executePipelinesOnLoad THEN execute(resume(c4), 0) ELSE c4
  IN IF state.operators.present /\ state.operators.isArray
     THEN Called(c5, "return true", 0)
     ELSE Called(c1, "return true", 0)

\* deserializeOperators executing the pipeline whatever the policy
deserializeOperatorsAlwaysRun(c, state, executePipelinesOnLoad) ==
  LET c1 == IF state.modules.present /\ state.modules.isArray
            THEN deserializeModules(c, state.modules.entries, 1) ELSE c
      c4 == connectChild(createOperators(pause(c1), state.operators.entries, 1),
                         state.operators.entries)
  IN IF state.operators.present /\ state.operators.isArray
     THEN Called(execute(resume(c4), 0), "return true", 0)
     ELSE Called(c1, "return true", 0)

\* the part of DataSource::deserialize after the simple fields
deserializeOperators(c, state, executePipelinesOnLoad) ==
  LET c1 == IF state.modules.present /\ state.modules.isArray
            THEN deserializeModules(c, state.modules.entries, 1) ELSE c
      c2 == pause(c1)
      c3 == createOperators(c2, state.operators.entries, 1)
      c4 == connectChild(c3, state.operators.entries)
      c5 == IF executePipelinesOnLoad THEN execute(resume(c4), 0) ELSE c4
  IN IF state.operators.present /\ state.operators.isArray
     THEN Called(c5, "return true", 0)
     ELSE Called(c1, "return true", 0)

\* onFinished without the disconnect
onFinishedStaysConnected(c, child) ==
  LET c1 == [c EXCEPT !.finished = @ + 1, !.child = child]
  IN IF c.connected = 0 \/ ~child THEN c1
     ELSE [Called(c1, "child deserialize", c.connected)
             EXCEPT !.childCalls = @ + 1]

\* the slot connected to Pipeline::finished: it restores the child when the
\* operator has one and disconnects itself
onFinished(c, child) ==
  LET c1 == [c EXCEPT !.finished = @ + 1, !.child = child]
  IN IF c.connected = 0 THEN c1
     ELSE [(IF child
            THEN [Called(c1, "child deserialize", c.connected)
                    EXCEPT !.childCalls = @ + 1]
            ELSE c1)
             EXCEPT !.connected = 0]

\* a data source about to be handed a document
Loading(state, flag, paused) ==
  /\ img = InitHeap(<<>>)
  /\ ds = [d \in SourceIds |-> NoSource]
  /\ out = <<>>
  /\ crashed = FALSE
  /\ last = [op |-> "Document", d |-> 0, args |-> <<state, flag>>,
             ret |-> Collaborators(paused)]

InitLoad == \E state \in Documents, flag \in BOOLEAN, paused \in BOOLEAN :
              Loading(state, flag, paused)

Deserialize ==
  /\ last.op = "Document"
  /\ last' = [last EXCEPT !.op = "deserialize",
                          !.ret = deserializeOperators(last.ret, last.args[1],
                                                       last.args[2])]
  /\ UNCHANGED <<img, ds, out, crashed>>

PipelineFinished ==
  /\ last.op \in {"deserialize", "finished"}
  /\ last.ret.finished < MaxFinished
  /\ \E child \in BOOLEAN :
       last' = [last EXCEPT !.op = "finished",
                            !.ret = onFinished(last.ret, child)]
  /\ UNCHANGED <<img, ds, out, crashed>>

NextLoad ==
  \/ Deserialize
  \/ PipelineFinished

SpecLoad == InitLoad /\ [][NextLoad]_vars

----------------------------------------------------------------------------
(* DataSource::reloadAndResample *)

\* the file names of a source at most
MaxFiles == 2

\* file names, character by character
FileNames ==
  {<<"a", ".", "e", "m", "d">>, <<"a", ".", "E", "M", "D">>,
   <<"a", ".", "h", "5">>, <<"a", ".", "h", "e", "5">>,
   <<"a", ".", "h", "d", "f", "5">>, <<"a", ".", "t", "i", "f">>,
   <<"a", "e", "m", "d">>, <<"a", ".", "h", "5", ".", "t">>, <<"a">>}

\* the lower-case form of the letters that occur
ToLower(ch) ==
  CASE ch = "E" -> "e"
    [] ch = "M" -> "m"
    [] ch = "D" -> "d"
    [] OTHER -> ch

\* QString::endsWith(x, Qt::CaseInsensitive)
endsWith(file, x) ==
  /\ Len(x) <= Len(file)
  /\ \A i \in 1..Len(x) :
       ToLower(file[Len(file) - Len(x) + i]) = ToLower(x[i])

h5Extensions ==
  {<<"e", "m", "d">>, <<"h", "5">>, <<"h", "e", "5">>, <<"h", "d", "f", "5">>}

canReloadAndResample(files) ==
  IF Len(files) # 1 THEN FALSE
  ELSE \E x \in h5Extensions : endsWith(files[1], x)

\* what reloadAndResample returns, the reader it hands the image to, whether
\* it executes the pipeline, and the calls and signals that follow;
\* isDataExchange is what GenericHDF5Format finds in the file and success
\* what the reader returns
reloadAndResample(files, hasOperators, isDataExchange, success) ==
  IF Len(files) # 1
  THEN [ret |-> FALSE, reader |-> "none", executed |-> FALSE,
        signals |-> <<>>]
  ELSE [ret |-> success,
        reader |-> IF endsWith(files[1], <<"e", "m", "d">>) THEN "EmdFormat"
                   ELSE IF isDataExchange THEN "DataExchangeFormat"
                   ELSE "GenericHDF5Format",
        executed |-> hasOperators,
        signals |-> <<"dataModified", "activeScalarsChanged",
                      "dataPropertiesChanged">>]

\* a source with its file names, with operators or without
Source(files, hasOperators) ==
  /\ img = InitHeap(<<>>)
  /\ ds = [d \in SourceIds |-> NoSource]
  /\ out = <<>>
  /\ crashed = FALSE
  /\ last = [op |-> "Source", d |-> 0, args |-> <<files, hasOperators>>,
             ret |-> FALSE]

InitReload ==
  \E files \in UNION {[1..n -> FileNames] : n \in 0..MaxFiles},
     hasOperators \in BOOLEAN : Source(files, hasOperators)

CanReloadAndResample ==
  /\ last.op = "Source"
  /\ last' = [last EXCEPT !.op = "canReloadAndResample",
                          !.ret = canReloadAndResample(last.args[1])]
  /\ UNCHANGED <<img, ds, out, crashed>>

ReloadAndResample ==
  /\ last.op = "Source"
  /\ \E isDataExchange \in BOOLEAN, success \in BOOLEAN :
       last' = [last EXCEPT !.op = "reloadAndResample",
                            !.ret = reloadAndResample(last.args[1],
                                      last.args[2], isDataExchange, success)]
  /\ UNCHANGED <<img, ds, out, crashed>>

NextReload ==
  \/ CanReloadAndResample
  \/ ReloadAndResample

SpecReload == InitReload /\ [][NextReload]_vars

----------------------------------------------------------------------------
(* Properties *)

Image(d) == img[ds[d].image]
ActiveVoxels(im) == im.arrays[im.act].vox

\* C1: switchTimeSeriesStep(i) with i < 0 or i >= numTimeSeriesSteps(), also
\* when the index comes from onTimeChanged, is rejected: the current index,
\* the producer's active array and the step list stay as they were and
\* timeStepChanged is not emitted.
C1_OutOfRangeIndex(n) ==
  \/ /\ last'.op = "switchTimeSeriesStep"
     /\ (last'.args[1] < 0 \/ last'.args[1] >= n)
  \/ /\ last'.op = "onTimeChanged"
     /\ n > 1
     /\ Len(last'.args[1]) # 1
     /\ LET i == InterpolatedStep(n, last'.args[1], last'.args[2])
        IN i < 0 \/ i >= n

C1_OutOfRangeSwitchRejected ==
  [][C1_OutOfRangeIndex(Len(ds[1].timeSeriesSteps)) =>
       /\ ds'[1].currentTimeStep = ds[1].currentTimeStep
       /\ ds'[1].image = ds[1].image
       /\ img' = img
       /\ ds'[1].timeSeriesSteps = ds[1].timeSeriesSteps
       /\ ~(<<1, "timeStepChanged">> \in Range(out'))]_vars

\* C2: after c = s.clone() the two active arrays share no storage:
\* renameScalarsArray, setActiveScalars, setType, setTiltAngles or
\* appendSlice applied to one of s and c leaves the other's array names,
\* active scalars, type tag, tilt angles, extent and voxels unchanged.
C2_Mutators == {"renameScalarsArray", "setActiveScalars", "setType",
                "setTiltAngles", "appendSlice"}

C2_CloneSharesNoStorage ==
  [][(ds[2].exists /\ last'.op \in C2_Mutators) =>
       LET other == 3 - last'.d
       IN img'[ds'[other].image] = img[ds[other].image]]_vars

\* C3: a slice whose x and y extent equals the volume's is appended:
\* appendSlice returns true, the upper z-extent grows by one, the old layers
\* keep their voxels, the new top layer holds the slice's voxels, and
\* dataChanged, dataPropertiesChanged and one pipeline execution follow the
\* copy.
C3_MatchingSliceAppended ==
  [][(/\ last'.op = "appendSlice"
      /\ ~last'.args[1].null
      /\ \A k \in 1..4 : last'.args[1].ext[k] = Image(1).ext[k]) =>
       LET old == Image(1)
           new == img'[ds'[1].image]
           copied == IndexOf(out', <<1, "sliceCopied">>)
       IN /\ last'.ret = TRUE
          /\ new.ext = [old.ext EXCEPT ![6] = @ + 1]
          /\ Len(ActiveVoxels(new)) = NumVoxels(new)
          /\ SubSeq(ActiveVoxels(new), 1, NumVoxels(old)) = ActiveVoxels(old)
          /\ SubSeq(ActiveVoxels(new), NumVoxels(old) + 1, NumVoxels(new))
               = last'.args[1].vox
          /\ copied > 0
          /\ \A sig \in {"dataChanged", "dataPropertiesChanged", "pipeline.execute"} :
               /\ Cardinality({k \in 1..Len(out') : out'[k] = <<1, sig>>}) = 1
               /\ IndexOf(out', <<1, sig>>) > copied]_vars

\* C4: a null slice or a slice with another x or y extent is refused:
\* appendSlice returns false, extent and voxels stay as they were, nothing
\* is emitted and no pipeline execution is started.
C4_Refused(slice) == slice.null \/ \E k \in 1..4 : slice.ext[k] # Image(1).ext[k]

C4_MismatchedSliceRejected ==
  [][(last'.op = "appendSlice" /\ C4_Refused(last'.args[1])) =>
       /\ last'.ret = FALSE
       /\ img' = img
       /\ ds' = ds
       /\ out' = <<>>
       /\ ~crashed']_vars

C4_Witness ==
  /\ last.op = "appendSlice"
  /\ ~last.args[1].null
  /\ last.args[1].ext[4] # Image(1).ext[4]
  /\ last.ret = FALSE

\* C5: whenever the active array has a tilt_angles field array, its length
\* is z1 - z0 + 1 of the array's extent.
C5_TiltLengthIsZExtent ==
  ~crashed => (Image(1).hasTilt => Len(Image(1).tilt) = NumZ(Image(1)))

\* C6: whenever type() is TiltSeries the active array has a tilt_angles
\* field array.
C6_TiltSeriesHasTiltAngles ==
  ~crashed => (ds[1].Type = TiltSeries => Image(1).hasTilt)

\* C7: deserialize(s.serialize()), applied to a source holding the same
\* arrays under their original names, yields the label, the active scalars
\* and the rename map of s.
C7_RoundTripScalars ==
  last.op = "loadState" =>
    /\ label(World, 2) = label(World, 1)
    /\ activeScalars(World, 2) = activeScalars(World, 1)
    /\ ds[2].CurrentToOriginal = ds[1].CurrentToOriginal

\* C8: deserialize(s.serialize()), applied to a freshly created source,
\* reproduces s.type() and, for a tilt series, the tilt angles of s.
C8_RoundTripType ==
  last.op = "loadState" =>
    /\ ds[2].Type = ds[1].Type
    /\ ds[1].Type = TiltSeries =>
         getTiltAnglesOf(Image(2)) = getTiltAnglesOf(Image(1))

\* C9: renameScalarsArray(old, new) with old = new, with no array named old
\* or with an array named new changes nothing: array names, active scalars
\* and rename map stay, no array is overwritten, no signal is emitted.
C9_Rejected(oldName, newName) ==
  \/ oldName = newName
  \/ oldName \notin Range(ArrayNames(Image(1)))
  \/ newName \in Range(ArrayNames(Image(1)))

C9_RejectedRenameChangesNothing ==
  [][(last'.op = "renameScalarsArray"
        /\ C9_Rejected(last'.args[1], last'.args[2])) =>
       /\ img' = img
       /\ ds' = ds
       /\ out' = <<>>]_vars

C9_Witness ==
  /\ last.op = "renameScalarsArray"
  /\ last.args[1] # last.args[2]
  /\ last.args[1] \in Range(ArrayNames(Image(1)))
  /\ last.args[2] \in Range(ArrayNames(Image(1)))
  /\ out = <<>>

\* C10: for an existing array a and a free name b, renameScalarsArray(a, b)
\* followed by renameScalarsArray(b, a) restores the array names, the
\* active scalars and the rename map.
C10_RenameThereAndBack ==
  ~crashed =>
    \A a \in Range(ArrayNames(Image(1))) :
      \A b \in Names \ Range(ArrayNames(Image(1))) :
        \A u \in UB(FALSE) :
          LET w == renameScalarsArray(
                     renameScalarsArray(World, 1, a, b, u), 1, b, a, u)
          IN /\ listScalars(w, 1) = listScalars(World, 1)
             /\ activeScalars(w, 1) = activeScalars(World, 1)
             /\ w.ds[1].CurrentToOriginal = ds[1].CurrentToOriginal

\* C11: setActiveScalars with a name that is not among listScalars(), or
\* with an index below 0 or not below the number of arrays, leaves the
\* active scalars as they were and emits neither activeScalarsChanged nor
\* dataPropertiesChanged; with an existing name or a valid index the named
\* array becomes the active one and both signals are emitted.
C11_Selects(name) ==
  IF name \in Range(ArrayNames(Image(1)))
    THEN /\ ActiveName(img'[ds'[1].image]) = name
         /\ <<1, "activeScalarsChanged">> \in Range(out')
         /\ <<1, "dataPropertiesChanged">> \in Range(out')
    ELSE /\ img'[ds'[1].image].act = Image(1).act
         /\ ArrayNames(img'[ds'[1].image]) = ArrayNames(Image(1))
         /\ <<1, "activeScalarsChanged">> \notin Range(out')
         /\ <<1, "dataPropertiesChanged">> \notin Range(out')

C11_SetActiveScalars ==
  [][/\ last'.op = "setActiveScalars" => C11_Selects(last'.args[1])
     /\ last'.op = "setActiveScalarsIdx" =>
          LET names == ArrayNames(Image(1))
              k == last'.args[1]
          IN C11_Selects(IF k >= 0 /\ k < Len(names) THEN names[k + 1] ELSE "")]_vars

C11_Witness ==
  /\ last.op = "setActiveScalarsIdx"
  /\ last.args[1] = 1
  /\ Len(Image(1).arrays) = 2
  /\ Image(1).act = 2
  /\ <<1, "activeScalarsChanged">> \in Range(out)

\* C12: after switchTimeSeriesStep(i) with 0 <= i < numTimeSeriesSteps(),
\* currentTimeSeriesIndex() is i, the active array is the array held by
\* step i, the source's type agrees with that array's type tag (the tag the
\* array came with, when it had one), and timeStepChanged is emitted once,
\* as the last thing, after the swap is complete.
C12_SwitchInstallsStep ==
  [][(/\ last'.op = "switchTimeSeriesStep"
      /\ last'.args[1] >= 0
      /\ last'.args[1] < Len(ds[1].timeSeriesSteps)) =>
       LET i == last'.args[1]
           step == ds[1].timeSeriesSteps[i + 1]
       IN /\ ~crashed'
          /\ currentTimeSeriesIndex([ds |-> ds'], 1) = i
          /\ ds'[1].image = step
          /\ ds'[1].Type = img'[step].tag
          /\ img[step].tag # NoTag => ds'[1].Type = img[step].tag
          /\ ~ds'[1].changingTimeStep
          /\ Cardinality({k \in 1..Len(out') :
                            out'[k] = <<1, "timeStepChanged">>}) = 1
          /\ out'[Len(out')] = <<1, "timeStepChanged">>]_vars

C12_Witness ==
  /\ last.op = "switchTimeSeriesStep"
  /\ last.args[1] = 1
  /\ Len(ds[1].timeSeriesSteps) = 2
  /\ ds[1].currentTimeStep = 1
  /\ ds[1].image = ds[1].timeSeriesSteps[2]
  /\ <<1, "timeStepChanged">> \in Range(out)

\* C13: after setType(t) the array's type tag is t; for t other than
\* TiltSeries the array has no tilt_angles; for TiltSeries it has
\* tilt_angles of length z1 - z0 + 1, all 0 when they were absent before,
\* and with the old entries that still fit kept when they were resized.
C13_SetTypeStampsAndSizes ==
  [][last'.op = "setType" =>
       LET t == last'.args[1]
           old == Image(1)
           new == img'[ds'[1].image]
       IN /\ new.tag = t
          /\ t # TiltSeries => ~new.hasTilt
          /\ t = TiltSeries =>
               /\ new.hasTilt
               /\ Len(new.tilt) = NumZ(new)
               /\ ~old.hasTilt => new.tilt = Fill(NumZ(new), 0)
               /\ old.hasTilt =>
                    \A k \in 1..Len(new.tilt) :
                      k <= Len(old.tilt) => new.tilt[k] = old.tilt[k]]_vars

\* C14: calling setType(t) a second time right after setType(t) leaves the
\* type, the type tag and the tilt angles (presence, length and values) as
\* the first call left them.
C14_SetTypeIdempotent ==
  (last.op = "setType" /\ ~crashed) =>
    \A u \in UB(FALSE) :
      LET w == setType(World, 1, last.args[1], u)
          once == Image(1)
          twice == w.img[w.ds[1].image]
      IN /\ w.ds[1].Type = ds[1].Type
         /\ twice.tag = once.tag
         /\ twice.hasTilt = once.hasTilt
         /\ twice.tilt = once.tilt

C14_Witness ==
  /\ last.op = "setType"
  /\ last.args[1] = TiltSeries
  /\ Image(1).hasTilt
  /\ NumZ(Image(1)) = 2
  /\ Len(Image(1).tilt) = 2

\* C15: c = s.clone() has the label and the type of s, the tilt angles of
\* s when s is a tilt series, as many time steps as s, each step's array
\* an independent copy of the corresponding step of s, and persistence
\* state Modified.
C15_CloneCopiesSource ==
  [][last'.op = "clone" =>
       /\ label([ds |-> ds'], 2) = label([ds |-> ds], 1)
       /\ ds'[2].Type = ds[1].Type
       /\ ds[1].Type = TiltSeries =>
            getTiltAnglesOf(img'[ds'[2].image]) = getTiltAnglesOf(img'[ds'[1].image])
       /\ Len(ds'[2].timeSeriesSteps) = Len(ds[1].timeSeriesSteps)
       /\ \A k \in 1..Len(ds[1].timeSeriesSteps) :
            /\ ds'[2].timeSeriesSteps[k] \notin Range(ds[1].timeSeriesSteps)
            /\ ds'[2].timeSeriesSteps[k] # ds[1].image
            /\ img'[ds'[2].timeSeriesSteps[k]].ext = img[ds[1].timeSeriesSteps[k]].ext
            /\ img'[ds'[2].timeSeriesSteps[k]].arrays
                 = img[ds[1].timeSeriesSteps[k]].arrays
       /\ ds'[2].PersistState = "Modified"]_vars

\* C16: after a successful renameScalarsArray, setActiveScalars, setType,
\* setTiltAngles, appendSlice, setSpacing, setUnits, setData or copyData on
\* a source whose persistence state is Saved, the persistence state is
\* Modified.
C16_Mutators == {"renameScalarsArray", "setActiveScalars", "setType",
                 "setTiltAngles", "appendSlice", "setSpacing", "setUnits",
                 "setData", "copyData"}

C16_Succeeded ==
  /\ ~crashed'
  /\ last'.op = "appendSlice" => last'.ret = TRUE
  /\ last'.op \in {"renameScalarsArray", "setActiveScalars"} => out' # <<>>

C16_MutationMarksModified ==
  [][(/\ last'.op \in C16_Mutators
      /\ C16_Succeeded
      /\ ds[1].PersistState = "Saved") =>
       ds'[1].PersistState = "Modified"]_vars

\* C17 (as stated): in the document produced by serialize(), every key of
\* scalarsRename is an array's current name and the value stored under it
\* is that array's original name.
C17_KeyedByCurrentName ==
  \A e \in serialize(World, 1).scalarsRename :
    /\ e[1] \in Range(listScalars(World, 1))
    /\ <<e[1], e[2]>> \in ds[1].CurrentToOriginal

\* C17 (amended): in the document produced by serialize(), every key of
\* scalarsRename is an original name of the source's rename map and the
\* value stored under it is a current name that the rename map maps to
\* that original name; every original name of the rename map is a key.
C17_KeyedByOriginalName ==
  LET scalarsRename == serialize(World, 1).scalarsRename
  IN /\ \A e \in scalarsRename : <<e[2], e[1]>> \in ds[1].CurrentToOriginal
     /\ \A c \in ds[1].CurrentToOriginal : MapHas(scalarsRename, c[2])

C17_Witness ==
  /\ last.op = "loadState"
  /\ \E e \in serialize(World, 1).scalarsRename :
       /\ e[1] # e[2]
       /\ e[2] \in Range(listScalars(World, 1))
       /\ e[1] \notin Range(listScalars(World, 1))

\* C18 (as stated): serialize() writes the keys spacing, origin and
\* orientation exactly when UnitsModified is true; when spacing and units
\* were never modified none of the three is present.
C18_ThreeKeysWhenModified ==
  LET keys == serialize(World, 1).keys
  IN IF ds[1].UnitsModified
       THEN {"spacing", "origin", "orientation"} \subseteq keys
       ELSE {"spacing", "origin", "orientation"} \cap keys = {}

\* C18 (amended): serialize() writes the key spacing exactly when
\* UnitsModified is true; the keys origin and orientation are always
\* written.
C18_SpacingWhenModified ==
  LET keys == serialize(World, 1).keys
  IN /\ "spacing" \in keys <=> ds[1].UnitsModified
     /\ "origin" \in keys
     /\ "orientation" \in keys

C18_Witness ==
  /\ last.op = "loadState"
  /\ ~ds[1].UnitsModified
  /\ img[ds[1].image].spacing = 2
  /\ "spacing" \notin serialize(World, 1).keys

\* the row of the file that output row y shows
C19_FileRow(f, y) ==
  IF f.Orientation = ORIENTATION_TOPLEFT THEN y ELSE f.Height - y - 1

C19_Expected(f) ==
  [i \in 1..(f.Width * f.Height) |->
     FilePixel((i - 1) % f.Width, C19_FileRow(f, (i - 1) \div f.Width))]

\* C19: for every width, height, tile width and tile height, exact multiples,
\* non-multiples and images smaller than one tile, and for both orientations,
\* ReadTiles leaves at pixel (x, y) of the output the file's pixel
\* (x, fileRow(y)), fileRow(y) being y for a top-left file and height - y - 1
\* otherwise
C19_TilesLandOnFileRows ==
  last.op = "ReadTiles" => last.ret.buffer = C19_Expected(last.args[1])

\* component c of the output pixel that shows the file's pixel (x, y)
C20_Component(f, x, y, c) ==
  IF f.SamplesPerPixel # 2 /\ ~CanRead(f)
  THEN RGBA(f, FileSample(f, x, y, 0))[c + 1]
  ELSE IF GetFormat(f) = "RGB" THEN FileSample(f, x, y, c)
  ELSE IF f.Photometrics = PHOTOMETRIC_MINISBLACK THEN FileSample(f, x, y, 0)
  ELSE 255 - FileSample(f, x, y, 0)

\* the components of an output pixel the file determines
C20_Components(f) ==
  IF f.SamplesPerPixel = 2 \/ (CanRead(f) /\ GetFormat(f) = "RGB")
  THEN 0..(f.SamplesPerPixel - 1)
  ELSE 0..(NumberOfScalarComponents(f) - 1)

C20_RowHolds(f, buffer, r, y) ==
  \A x \in 0..(f.Width - 1), c \in C20_Components(f) :
    buffer[(((r * f.Width) + x) * NumberOfScalarComponents(f)) + c + 1]
      = C20_Component(f, x, y, c)

\* C20: in every decode path (fast scanline path, per-pixel generic path,
\* tiled path, two-samples-per-pixel path, RGBA fallback of single-image and
\* of multi-page decoding) output row r holds file row r when the orientation
\* is TOPLEFT and file row height - r - 1 otherwise
C20_RowsFollowOrientation ==
  last.op \in {"ReadTiles", "ReadVolume", "ReadImageInternal"} =>
    \A r \in 0..(last.args[1].Height - 1) :
      C20_RowHolds(last.args[1], last.ret.buffer, r,
                   IF last.args[1].Orientation = ORIENTATION_TOPLEFT THEN r
                   ELSE last.args[1].Height - r - 1)

\* the directories of the primary pages, in directory order, counted from 0:
\* the sub-file type of a directory without the tag is 0
C21_Primaries(f) ==
  SelectSeq([i \in 1..Len(f.Directories) |-> i - 1],
            LAMBDA d : f.Directories[d + 1] \in {<<>>, <<0>>})

\* the plane that starts at `offset` shows the page of directory d
C21_PageAt(f, buffer, d, offset) ==
  /\ offset + PlaneSize(f) <= Len(buffer)
  /\ \A r \in 0..(f.Height - 1) :
       C20_RowHolds([f EXCEPT !.Page = d],
                    SubSeq(buffer, offset + 1, offset + PlaneSize(f)), r,
                    IF f.Orientation = ORIENTATION_TOPLEFT THEN r
                    ELSE f.Height - r - 1)

\* a sample of the page of directory d is somewhere in the buffer
C21_Written(f, buffer, d) ==
  \E i \in 1..Len(buffer), x \in 0..(f.Width - 1), y \in 0..(f.Height - 1) :
    buffer[i] = C20_Component([f EXCEPT !.Page = d], x, y, 0)

\* SizeZ is the number of primary pages or the number of directories
C21_Mixed(f) ==
  /\ Len(C21_Primaries(f)) \in 1..(Len(f.Directories) - 1)
  /\ f.OmeSizeZ \in {Len(C21_Primaries(f)), Len(f.Directories)}

\* C21: for a multi-page file whose directories mix primary and non-primary
\* pages in any order, ReadVolume writes the k-th primary page (k from 0) at
\* offset k * width * height * samplesPerPixel of the buffer and writes no
\* non-primary page
C21_PrimaryPagesBecomeSlices ==
  (last.op = "ReadVolume" /\ C21_Mixed(last.args[1])) =>
    LET f == last.args[1]
        primary == C21_Primaries(f)
    IN /\ \A k \in 1..Len(primary) :
            C21_PageAt(f, last.ret.buffer, primary[k],
                       (k - 1) * f.Width * f.Height * f.SamplesPerPixel)
       /\ \A d \in 0..(Len(f.Directories) - 1) :
            f.Directories[d + 1] \notin {<<>>, <<0>>}
              => ~C21_Written(f, last.ret.buffer, d)

\* the requests a decode call made of scanlines that cannot be read
C22_FailedReads ==
  {i \in 1..Len(last.ret.reads) :
     last.ret.reads[i][2] \in last.args[1].BadRows}

\* C22: in every decode path, once a scanline read has failed, the decode
\* call reads no further scanline, sample plane or page, and it reports the
\* failure
C22_DecodeStopsAtFirstFailure ==
  (/\ last.op \in {"ReadVolume", "ReadImageInternal"}
   /\ C22_FailedReads # {})
    => /\ C22_FailedReads = {Len(last.ret.reads)}
       /\ last.ret.errors > 0

\* the file exists but is not one the scanline decoders are given
C23_Unreadable(f) ==
  f.Exists /\ (f.Description # "OME" \/ ~CanRead(f))

\* the buffer holds red, green, blue and alpha of every pixel of every page
C23_FourComponents(f, buffer) ==
  /\ Len(buffer) = f.Width * f.Height * f.NumberOfPages * 4
  /\ \A n \in 1..Len(buffer) : (n % 4 = 0) => buffer[n] = 255

\* C23: a file that opens as TIFF but lacks an ImageDescription, holds XML
\* that cannot be parsed or is not OME, or has an unsupported layout stays
\* open and is decoded by the RGBA fallback into four components; decoding
\* is refused only when the file itself cannot be opened
C23_UnreadableFilesFallBackToRGBA ==
  /\ last.op \in {"CannotOpen", "Process2"} => ~last.args[1].Exists
  /\ (/\ last.op \in {"ReadVolume", "ReadImageInternal"}
      /\ C23_Unreadable(last.args[1]))
       => C23_FourComponents(last.args[1], last.ret.buffer)

\* what the two-samples decoder leaves in a buffer of three components a
\* pixel
C24_TwoSamplesBuffers(f) ==
  {Decoded(PlaneSize(f), fill, ReadTwoSamplesPerPixelImage(f, over)).buffer :
     fill \in Garbage, over \in Garbage}

\* C24: a file of two samples per pixel that is neither multi-page nor tiled
\* is decoded by the two-samples path into three components, whether its
\* samples are contiguous or in separate planes
C24_TwoSamplesBeforeGeneric ==
  (/\ last.op \in {"ReadVolume", "ReadImageInternal"}
   /\ last.args[1].SamplesPerPixel = 2
   /\ last.args[1].NumberOfPages <= 1)
    => /\ ~last.ret.overrun
       /\ last.ret.buffer \in C24_TwoSamplesBuffers(last.args[1])

\* the rows a decode call requested of sample plane s of page pg, in the
\* order of the requests
C25_Rows(pg, s) ==
  LET of == SelectSeq(last.ret.reads, LAMBDA r : r[1] = pg /\ r[3] = s)
  IN [i \in 1..Len(of) |-> of[i][2]]

\* C25: from a file without random access (compressed, in strips of more
\* than one row) every scanline-based path requests the rows in strictly
\* increasing order, every row from 0 up to the last one it needs
C25_RowsInFileOrder ==
  (/\ last.op \in {"ReadVolume", "ReadImageInternal"}
   /\ ~SupportsRandomAccess(last.args[1]))
    => \A pg \in 0..(MaxPages - 1), s \in {0, 1} :
         C25_Rows(pg, s) = RowsFromTo(0, Len(C25_Rows(pg, s)) - 1)

\* the positions of the calls of one kind in the trace of a load
C26_At(what) ==
  {n \in 1..Len(last.ret.trace) : last.ret.trace[n][1] = what}

\* the position of the call of one kind for entry i, 0 when there is none
C26_Call(what, i) ==
  IF \E n \in C26_At(what) : last.ret.trace[n][2] = i
  THEN CHOOSE n \in C26_At(what) : last.ret.trace[n][2] = i
  ELSE 0

\* C26: in a load of a document with modules and operators every module is
\* created and deserialized before the first operator is created, the
\* pipeline is paused before the first operator is added, and no execution
\* starts between the pause and the addition of the last operator
C26_ModulesThenPausedOperators ==
  (/\ last.op = "deserialize"
   /\ last.args[1].modules.isArray
   /\ last.args[1].operators.isArray)
    => /\ \A i \in 1..Len(last.args[1].modules.entries),
             o \in C26_At("createOperator") :
            /\ 0 < C26_Call("createAndAddModule", i)
            /\ C26_Call("createAndAddModule", i)
                 < C26_Call("Module::deserialize", i)
            /\ C26_Call("Module::deserialize", i) < o
       /\ \A a \in C26_At("addOperator") :
            \E p \in C26_At("pause") : p < a
       /\ \A p \in C26_At("pause"), a \in C26_At("addOperator"),
             e \in C26_At("execute") : ~(p < e /\ e < a)

\* a load that was not paused before, of two modules and two operators that
\* are added, followed by the execution
C26_Witness ==
  /\ last.op = "deserialize"
  /\ Len(last.ret.modules) = 2
  /\ Len(last.ret.operators) = 2
  /\ last.ret.executions = 1
  /\ last.ret.trace[1] = <<"createAndAddModule", 1>>

\* C27: the load of a document with an operators array resumes the pipeline
\* and starts exactly one execution when executePipelinesOnLoad is enabled,
\* and starts none and does not resume when it is disabled
C27_ExecutesOnLoadOnly ==
  (last.op = "deserialize" /\ last.args[1].operators.isArray)
    => IF last.args[2]
       THEN /\ last.ret.executions = 1
            /\ C26_At("resume") # {}
            /\ ~last.ret.paused
       ELSE /\ last.ret.executions = 0
            /\ C26_At("resume") = {}

\* a load with the policy enabled that added an operator and executed once
C27_Witness ==
  /\ last.op = "deserialize"
  /\ last.args[2]
  /\ Len(last.ret.operators) >= 1
  /\ last.ret.executions = 1

\* one step of a load: the child's deserialize is called only at the first
\* Pipeline::finished, once, and only when the operator has a child then
C28_Step ==
  /\ last'.op = "deserialize" => last'.ret.childCalls = 0
  /\ (last.op # "Document" /\ last'.ret.childCalls # last.ret.childCalls)
       => /\ last'.op = "finished"
          /\ last.ret.finished = 0
          /\ last'.ret.child
          /\ last'.ret.childCalls = 1

\* C28: the state of a child data source is not restored during the load of
\* its parent; it is restored at most once, at the first Pipeline::finished
\* after the load when the operator has a child data source then, and never
\* at a later one
C28_ChildRestoredOnceAfterLoad == [][C28_Step]_vars

\* the child was restored at the first of two finished events
C28_Witness ==
  /\ last.op = "finished"
  /\ last.ret.finished = 2
  /\ last.ret.childCalls = 1
  /\ last.ret.child

\* the entries of an array that satisfy keep, by position and in order
C29_Kept(entries, keep) ==
  SelectSeq([i \in 1..Len(entries) |-> i], LAMBDA i : keep[i])

\* C29: a load returns true for every document; exactly the module entries
\* whose deserialize succeeds are kept and exactly the operator entries of
\* known type whose deserialize succeeds are added, in document order
C29_FailingEntriesDropped ==
  last.op = "deserialize"
    => /\ last.ret.trace[Len(last.ret.trace)] = <<"return true", 0>>
       /\ last.ret.operators
            = C29_Kept(last.args[1].operators.entries,
                       [i \in 1..Len(last.args[1].operators.entries) |->
                          /\ last.args[1].operators.entries[i].known
                          /\ last.args[1].operators.entries[i].ok])
       /\ last.ret.modules
            = C29_Kept(last.args[1].modules.entries,
                       [i \in 1..Len(last.args[1].modules.entries) |->
                          last.args[1].modules.entries[i].ok])

\* the source has exactly one file name and it ends in .emd, .h5, .he5 or
\* .hdf5, in either case of the letters
C30_Recognized(files) ==
  /\ Len(files) = 1
  /\ \E x \in h5Extensions : endsWith(files[1], <<".">> \o x)

\* C30: reloadAndResample hands the image to a reader only for a source with
\* exactly one file name of a recognized extension; for any other source it
\* returns false, reads nothing, executes nothing and signals nothing; and
\* canReloadAndResample holds exactly where reloadAndResample reads
C30_ReloadsRecognizedFilesOnly ==
  last.op = "reloadAndResample"
    => /\ last.ret.reader # "none" => C30_Recognized(last.args[1])
       /\ ~C30_Recognized(last.args[1])
            => /\ ~last.ret.ret
               /\ last.ret.reader = "none"
               /\ ~last.ret.executed
               /\ last.ret.signals = <<>>
       /\ canReloadAndResample(last.args[1]) <=> last.ret.reader # "none"

\* C31: whenever the image of a source has named arrays, one of them is the
\* active one: activeScalars() is not empty and is one of listScalars()
C31_OneArrayIsActive ==
  (/\ ~crashed
   /\ ds[1].exists
   /\ Len(listScalars(World, 1)) > 0)
    => /\ activeScalars(World, 1) # ""
       /\ activeScalars(World, 1) \in Range(listScalars(World, 1))

\* C32: every array of the volume has as many voxels as the extent of the
\* volume spans, however many slices were appended
C32_ArraysSpanTheExtent ==
  (~crashed /\ ds[1].exists)
    => \A k \in 1..Len(img[ds[1].image].arrays) :
         Len(img[ds[1].image].arrays[k].vox) = NumVoxels(img[ds[1].image])

\* C33: for every width, height, tile size and orientation, every tile
\* ReadTiles asks for lies inside the image and every copy it makes, in the
\* main pass and in the three boundary passes, writes inside the
\* width * height samples of the output
C33_TileCopiesStayInside ==
  last.op = "ReadTiles" => (~last.ret.failed /\ ~last.ret.overrun)

\* C34: m_changingTimeStep is set only while switchTimeSeriesStep runs: no
\* dataChanged emitted during an accepted switch rescales the color map, and
\* the flag is clear in every state a call has returned to, whether the
\* switch was accepted or rejected
C34_FlagOnlyDuringSwitch ==
  ~crashed =>
    /\ \A d \in SourceIds : ~ds[d].changingTimeStep
    /\ last.op = "switchTimeSeriesStep"
         => <<last.d, "rescaleColorMap">> \notin Range(out)

C34_Witness ==
  /\ ~crashed
  /\ last.op = "switchTimeSeriesStep"
  /\ last.args[1] \in 0..(numTimeSeriesSteps(World, 1) - 1)
  /\ currentTimeSeriesIndex(World, 1) = last.args[1]
  /\ <<1, "dataChanged">> \in Range(out)
  /\ <<1, "rescaleColorMap">> \notin Range(out)
  /\ ~ds[1].changingTimeStep

\* C35: after any sequence of setTimeSeriesSteps, addTimeSeriesStep(s),
\* clearTimeSeriesSteps and switchTimeSeriesStep, either there are no steps
\* and the current index is 0, or the current index is that of a step
C35_IndexWithinSteps ==
  (~crashed /\ ds[1].exists)
    => \/ /\ numTimeSeriesSteps(World, 1) = 0
          /\ currentTimeSeriesIndex(World, 1) = 0
       \/ currentTimeSeriesIndex(World, 1)
            \in 0..(numTimeSeriesSteps(World, 1) - 1)

\* C36: after any sequence of construction, setData, copyData,
\* switchTimeSeriesStep, setTimeSeriesSteps and renameScalarsArray, the keys
\* of the rename map are the names listScalars() returns, and no key maps to
\* an empty original name
C36_RenameMapTracksArrays ==
  (~crashed /\ ds[1].exists)
    => /\ MapKeys(ds[1].CurrentToOriginal) = Range(listScalars(World, 1))
       /\ \A p \in ds[1].CurrentToOriginal : p[2] # ""

\* C37: when a successful renameScalarsArray emits dataChanged,
\* activeScalarsChanged or dataPropertiesChanged, the rename map has already
\* been updated, so that a listener serializing the source inside the signal
\* finds the new name
C37_MapUpdatedBeforeSignals ==
  (last.op = "renameScalarsArray" /\ ~crashed)
    => \A k \in 1..Len(out) :
         out[k][2] \in {"dataChanged", "activeScalarsChanged",
                        "dataPropertiesChanged"}
           => \E j \in 1..(k - 1) : out[j] = <<last.d, "renameTracked">>

\* C38: for every slice appendSlice accepts, whatever its z-extent, what is
\* copied from the slice is exactly one x-y layer of the volume, and the copy
\* does not write past the new top layer
C38_OneLayerCopied ==
  [][(/\ last'.op = "appendSlice"
      /\ ~last'.args[1].null
      /\ ~ExtentMismatch(Image(1).ext, last'.args[1].ext)) =>
       LET r == appendImageData(Image(1), last'.args[1],
                                CHOOSE u \in UBCopy : TRUE)
       IN /\ Len(last'.args[1].vox) = LayerSize(r.im)
          /\ ~r.overrun]_vars

C40_DeclaredUnitsAttached ==
  last.op = "ExecuteDataWithInformation" =>
    LET pixelNode == last.args[1].Pixels
    IN \A a \in 1..3 :
         /\ last.ret.units[a]
              = (IF MapHas(pixelNode.units, <<"PhysicalSizeUnit", a>>)
                 THEN MapGet(pixelNode.units, <<"PhysicalSizeUnit", a>>)
                 ELSE "um")
         /\ last.ret.spacing[a]
              = (IF MapHas(pixelNode.sizes, <<"PhysicalSize", a>>)
                 THEN as_float(pixelNode.sizes, <<"PhysicalSize", a>>)
                 ELSE 1)

====
